---- MODULE Spec2Model ----
(***************************************************************************)
(* Model of the metrics package (phase1/01-metrics-system): the atomic     *)
(* instruments Counter and Gauge, and the Registry that indexes them by    *)
(* name behind a sync.RWMutex.                                             *)
(*                                                                         *)
(* Every goroutine is a thread with a program counter.  A Registry method  *)
(* is a sequence of steps: the lock acquisition, each statement of the     *)
(* critical section, and the deferred unlock, which also returns.  An      *)
(* instrument method is one atomic step (go.uber.org/atomic) followed by   *)
(* its return.  A thread's record of its call (arguments, result, history) *)
(* lives from the call to the return.                                      *)
(***************************************************************************)
EXTENDS Integers, Sequences, FiniteSets, TLC

\* ------------------------------------------------------------------ bounds
\* Width, in bits, of the scaled-down signed integer standing for int64.
IntBits == 5
\* Number of Inc() calls each worker goroutine makes (`increments`).
IncPerWorker == 3
\* Largest value a counter may hold when the workers start.
MaxBase == 1
\* Width, in bits, of the scaled-down significand standing for float64's 53.
FloatBits == 3
\* Number of calls each goroutine of the gauge workload makes.
GaugePerWorker == 2
\* Largest value the counter reaches in the single-goroutine program.
MaxVal == 1
\* Number of instrument calls made while snapshots are taken.
MaxUpdates == 3

\* ---------------------------------------------------------------- universe
\* Goroutines calling into the Registry concurrently.
Threads == {"t1", "t2"}
\* The goroutine that waits for the workers (wg.Wait) and then reads.
Main == "t3"
AllThreads == Threads \cup {Main}
NoThread == "none"

\* The nil Metric interface value.
Nil == "nil"
\* Counter objects (references).  c1 and c2 share a name; e0 has the empty name.
Counters == {"c1", "c2", "e0"}
\* Gauge objects.
Gauges == {"g1"}
Insts == Counters \cup Gauges

\* Counter.Name / Gauge.Name: the immutable name given at construction.
Name(m) ==
  CASE m = "c1" -> "a"
    [] m = "c2" -> "a"
    [] m = "g1" -> "b"
    [] OTHER    -> ""

Names == {Name(m) : m \in Insts}

\* ------------------------------------------------------------ error values
NoErr == "nil"
ErrNilMetric == "cannot register nil metric"
ErrInvalidMetricName == "metric name cannot be empty"
ErrDuplicateMetric == "metric with this name already exists"
ErrMetricNotFound == "metric not found"

\* ------------------------------------------------------------------- state
VARIABLES
  metricsNil,   \* Registry.metrics == nil (the map was never allocated)
  metrics,      \* Registry.metrics: function from the names present to Insts
  muW,          \* Registry.mu: the thread that owns or awaits the write lock
  muR,          \* Registry.mu: the threads that hold the read lock
  value,        \* Counter.value / Gauge.value of every instrument
  pc,           \* position of every thread
  left,         \* iterations the thread's worker loop still has to run
  op,           \* the method the thread is in
  argM,         \* its Metric argument (or receiver, for an instrument method)
  argN,         \* its name argument
  argD,         \* its delta argument
  res,          \* what the call returns
  snap,         \* Snapshot's local map `snapshot`
  iter,         \* Snapshot's range loop: the names not yet visited
  oldV,         \* history: the value the atomic operation found
  newV,         \* history: the value the atomic operation left
  base,         \* history: every instrument's value in the initial state
  hiLoad,       \* history: the largest result of the Counter.Load calls returned
  absEntries,   \* history: the entry set of the sequential Registry
  absRes,       \* history: what the sequential Registry returns to the thread
  linPre,       \* history: the Registry just before the thread's call took effect
  linPost,      \* history: the Registry just after the thread's call took effect
  lastMut,      \* history: the successful Register/Unregister/Clear that took effect last
  during,       \* history: the values every instrument held during the thread's Snapshot
  stored,       \* history: the value last stored in every gauge (NewGauge or Set)
  gsum,         \* history: the exact sum of the deltas added to every gauge since
  inexact,      \* history: some sum since then was rounded
  rz,           \* sequential program: `var r Registry` (or a NewRegistry), as [nil, m, cap]
  rn,           \* sequential program: a NewRegistry, given the same calls as rz
  out,          \* sequential program: what the last call returned, from rz and from rn
  last,         \* sequential program: the last call made
  held,         \* sequential program: the map objects on the heap
  ref,          \* sequential program: the caller's variables snapshot1, snapshot2
  expect,       \* history: what each caller variable should read
  counted,      \* history: what the Inc and Add calls on every counter add up to
  outcome,      \* history: what the awaited Register call of the thread returned
  hiSnap        \* history: the largest value of the counter in the snapshots returned, where kept

vars == <<metricsNil, metrics, muW, muR, value, pc, left, op, argM, argN, argD,
          res, snap, iter, oldV, newV, base, hiLoad, absEntries, absRes,
          linPre, linPost, lastMut, during, stored, gsum, inexact,
          rz, rn, out, last, held, ref, expect, counted, outcome, hiSnap>>

regVars == <<metricsNil, metrics>>
muVars == <<muW, muR>>
callVars == <<op, argM, argN, argD, res>>
snapVars == <<snap, iter>>
atomVars == <<oldV, newV>>
linVars == <<absEntries, absRes, linPre, linPost, lastMut>>
valVars == <<value, during, counted>>
gaugeVars == <<stored, gsum, inexact>>
callerVars == <<rz, rn, out, last, held, ref, expect>>
keptVars == <<left, base, hiSnap, hiLoad, gaugeVars, callerVars>>
loopVars == <<keptVars, outcome>>

\* ------------------------------------------------------------ map helpers
EmptyMap == [x \in {} |-> Nil]
MapPut(f, k, v) == [x \in (DOMAIN f) \cup {k} |-> IF x = k THEN v ELSE f[x]]
MapDel(f, k) == [x \in (DOMAIN f) \ {k} |-> f[x]]

\* --------------------------------------------------------- integer helpers
IntMin == 0 - 2^(IntBits - 1)
IntMax == 2^(IntBits - 1) - 1
\* Two's-complement wrap-around of atomic.Int64.Add.
Wrap(x) == ((x - IntMin) % 2^IntBits) + IntMin
Max(x, y) == IF x >= y THEN x ELSE y

\* --------------------------------------------------------- float64 helpers
\* The unit in the last place of a float of magnitude a: the significand
\* holds FloatBits bits.
RECURSIVE Ulp(_, _)
Ulp(a, q) == IF a < 2^FloatBits * q THEN q ELSE Ulp(a, 2 * q)
\* The float nearest to the exact number x, ties to the even significand:
\* what a float64 addition returns for the exact sum x.
FRound(x) ==
  LET a == IF x < 0 THEN 0 - x ELSE x
      q == Ulp(a, 1)
      lo == (a \div q) * q
      r == a - lo
      up == IF 2 * r > q \/ (2 * r = q /\ (lo \div q) % 2 = 1) THEN lo + q ELSE lo
  IN IF x < 0 THEN 0 - up ELSE up
\* The first integer that float addition of 1.0 cannot reach (2^53 in float64).
FloatLimit == 2^FloatBits

\* ---------------------------------------------------------- return values
RVoid == [err |-> NoErr, m |-> Nil, ok |-> FALSE, n |-> 0]
RErr(e) == [err |-> e, m |-> Nil, ok |-> FALSE, n |-> 0]
RGet(m, b) == [err |-> NoErr, m |-> m, ok |-> b, n |-> 0]
RInt(n) == [err |-> NoErr, m |-> Nil, ok |-> FALSE, n |-> n]

\* The Registry's fields as one value.
RegState == [nil |-> metricsNil, m |-> metrics]
NoState == [nil |-> TRUE, m |-> EmptyMap]
\* The name is a key of the Registry's map.
Present(n) == ~metricsNil /\ n \in DOMAIN metrics
NoMut == [op |-> "none", m |-> Nil, name |-> ""]

\* -------------------------------------------- sequential Registry (history)
\* The Registry as a sequential object over its entry set E: what one call,
\* applied alone, leaves and returns.
SeqApply(E, o, m, n) ==
  CASE o = "Register" ->
         IF m = Nil THEN [E |-> E, res |-> RErr(ErrNilMetric)]
         ELSE IF Name(m) = "" THEN [E |-> E, res |-> RErr(ErrInvalidMetricName)]
         ELSE IF Name(m) \in DOMAIN E THEN [E |-> E, res |-> RErr(ErrDuplicateMetric)]
         ELSE [E |-> MapPut(E, Name(m), m), res |-> RVoid]
    [] o = "Unregister" ->
         IF n \in DOMAIN E THEN [E |-> MapDel(E, n), res |-> RVoid]
         ELSE [E |-> E, res |-> RErr(ErrMetricNotFound)]
    [] o = "Get" ->
         IF n \in DOMAIN E THEN [E |-> E, res |-> RGet(E[n], TRUE)]
         ELSE [E |-> E, res |-> RGet(Nil, FALSE)]
    [] o = "Len" -> [E |-> E, res |-> RInt(Cardinality(DOMAIN E))]
    [] o = "Clear" -> [E |-> EmptyMap, res |-> RVoid]
    [] OTHER -> [E |-> E, res |-> RVoid]

\* The call of thread t takes effect in this step, returning r to it.
Lin(t, o, m, n, r) ==
  LET s == SeqApply(absEntries, o, m, n) IN
  /\ absEntries' = s.E
  /\ absRes' = [absRes EXCEPT ![t] = s.res]
  /\ linPre' = [linPre EXCEPT ![t] = RegState]
  /\ linPost' = [linPost EXCEPT ![t] = RegState']
  /\ lastMut' = IF r = RVoid /\ o \in {"Register", "Unregister", "Clear"}
                THEN [op |-> o, m |-> m, name |-> n]
                ELSE lastMut

\* ------------------------------------------- values held during a Snapshot
NoDuring == [start |-> [m \in Insts |-> 0], seen |-> [m \in Insts |-> {}],
             joint |-> {}]
\* Instrument m takes the value v: every Snapshot call in progress has one
\* more value that m held while it ran, and one more combination of values
\* that the instruments held at the same instant.
Track(m, v) ==
  [t \in AllThreads |->
     IF op[t] = "Snapshot"
     THEN [during[t] EXCEPT !.seen[m] = @ \cup {v},
                            !.joint = @ \cup {[value EXCEPT ![m] = v]}]
     ELSE during[t]]

\* ------------------------------------------------------------ sync.RWMutex
\* Mutant: Lock that takes the writer slot from its owner.
LockAnnounceShared(t) == muW' = t /\ muR' = muR
\* Lock, first half: take the writer slot; from now on new readers block.
LockAnnounce(t) == muW = NoThread /\ muW' = t /\ muR' = muR
\* Lock, second half: wait until the active readers have left.
LockAcquire(t) == muW = t /\ muR = {} /\ UNCHANGED muVars
Unlock(t) == muW' = NoThread /\ muR' = muR
\* Mutant: RLock that does not wait for a writer.
RLockNoWait(t) == muR' = muR \cup {t} /\ muW' = muW
\* Mutant: RLock of a plain mutex, which one reader holds at a time.
RLockExclusive(t) ==
  muW = NoThread /\ muR = {} /\ muR' = muR \cup {t} /\ muW' = muW
\* RLock blocks while a writer holds or awaits the lock.
RLock(t) == muW = NoThread /\ muR' = muR \cup {t} /\ muW' = muW
RUnlock(t) == muR' = muR \ {t} /\ muW' = muW

\* ------------------------------------------------------------ thread steps
Goto(t, p) == pc' = [pc EXCEPT ![t] = p]
At(t, p) == pc[t] = p
Ret(t, r) == res' = [res EXCEPT ![t] = r]

\* A thread enters a method: its arguments are recorded.
Enter(t, o, m, n, d) ==
  /\ pc[t] = "idle"
  /\ op' = [op EXCEPT ![t] = o]
  /\ argM' = [argM EXCEPT ![t] = m]
  /\ argN' = [argN EXCEPT ![t] = n]
  /\ argD' = [argD EXCEPT ![t] = d]

\* The outcome of a Register call: not recorded, or recorded once it returns.
NoOutcome == [m |-> Nil, res |-> "none"]
Awaited == [m |-> Nil, res |-> "awaited"]

\* A thread returns to its caller: the call's record is dropped, but for the
\* result of a Register call that the program keeps.
Leave(t) ==
  /\ Goto(t, "idle")
  /\ op' = [op EXCEPT ![t] = "none"]
  /\ argM' = [argM EXCEPT ![t] = Nil]
  /\ argN' = [argN EXCEPT ![t] = ""]
  /\ argD' = [argD EXCEPT ![t] = 0]
  /\ res' = [res EXCEPT ![t] = RVoid]
  /\ snap' = [snap EXCEPT ![t] = EmptyMap]
  /\ iter' = [iter EXCEPT ![t] = {}]
  /\ oldV' = [oldV EXCEPT ![t] = 0]
  /\ newV' = [newV EXCEPT ![t] = 0]
  /\ absRes' = [absRes EXCEPT ![t] = RVoid]
  /\ linPre' = [linPre EXCEPT ![t] = NoState]
  /\ linPost' = [linPost EXCEPT ![t] = NoState]
  /\ outcome' = IF outcome[t] = Awaited /\ op[t] = "Register"
                THEN [outcome EXCEPT ![t] = [m |-> argM[t], res |-> res[t]]]
                ELSE outcome
  /\ UNCHANGED <<absEntries, lastMut>>

\* --------------------------------------------------------- Registry.Register
\* Mutant: Register without the empty-name check.
RegisterCallNoNameCheck(t, m) ==
  LET n == IF m = Nil THEN "" ELSE Name(m) IN
  /\ Enter(t, "Register", m, n, 0)
  /\ UNCHANGED <<regVars, muVars, valVars, loopVars, snapVars, atomVars>>
  /\ IF m = Nil
     THEN /\ Ret(t, RErr(ErrNilMetric))
          /\ Lin(t, "Register", m, n, RErr(ErrNilMetric))
          /\ Goto(t, "RegReturn")
     ELSE /\ Ret(t, RVoid)
          /\ Goto(t, "RegLock")
          /\ UNCHANGED linVars

\* Mutant: Register that checks the name before it checks for nil.
RegisterCallNameFirst(t, m) ==
  LET n == IF m = Nil THEN "" ELSE Name(m) IN
  /\ Enter(t, "Register", m, n, 0)
  /\ UNCHANGED <<regVars, muVars, valVars, loopVars, snapVars, atomVars>>
  /\ IF n = ""
     THEN /\ Ret(t, RErr(ErrInvalidMetricName))
          /\ Lin(t, "Register", m, n, RErr(ErrInvalidMetricName))
          /\ Goto(t, "RegReturn")
     ELSE IF m = Nil
     THEN /\ Ret(t, RErr(ErrNilMetric))
          /\ Lin(t, "Register", m, n, RErr(ErrNilMetric))
          /\ Goto(t, "RegReturn")
     ELSE /\ Ret(t, RVoid)
          /\ Goto(t, "RegLock")
          /\ UNCHANGED linVars

\* The two checks made before the lock: metric == nil, then name == "".
RegisterCall(t, m) ==
  LET n == IF m = Nil THEN "" ELSE Name(m) IN
  /\ Enter(t, "Register", m, n, 0)
  /\ UNCHANGED <<regVars, muVars, valVars, loopVars, snapVars, atomVars>>
  /\ IF m = Nil
     THEN /\ Ret(t, RErr(ErrNilMetric))
          /\ Lin(t, "Register", m, n, RErr(ErrNilMetric))
          /\ Goto(t, "RegReturn")
     ELSE IF n = ""
     THEN /\ Ret(t, RErr(ErrInvalidMetricName))
          /\ Lin(t, "Register", m, n, RErr(ErrInvalidMetricName))
          /\ Goto(t, "RegReturn")
     ELSE /\ Ret(t, RVoid)
          /\ Goto(t, "RegLock")
          /\ UNCHANGED linVars

\* return of the error found before the lock
RegReturn(t) ==
  /\ At(t, "RegReturn")
  /\ Leave(t)
  /\ UNCHANGED <<regVars, muVars, valVars, keptVars>>

RegLock(t) ==
  /\ At(t, "RegLock")
  /\ LockAnnounce(t)
  /\ Goto(t, "RegWait")
  /\ UNCHANGED <<regVars, valVars, loopVars, callVars, snapVars, atomVars, linVars>>

RegWait(t) ==
  /\ At(t, "RegWait")
  /\ LockAcquire(t)
  /\ Goto(t, "RegInit")
  /\ UNCHANGED <<regVars, valVars, loopVars, callVars, snapVars, atomVars, linVars>>

\* Mutant: Register that makes a new map on every call.
RegInitAlways(t) ==
  /\ At(t, "RegInit")
  /\ metricsNil' = FALSE
  /\ metrics' = EmptyMap
  /\ Goto(t, "RegCheck")
  /\ UNCHANGED <<muVars, valVars, loopVars, callVars, snapVars, atomVars, linVars>>

\* if r.metrics == nil { r.metrics = make(map[string]Metric, 16) }
RegInit(t) ==
  /\ At(t, "RegInit")
  /\ IF metricsNil
     THEN metricsNil' = FALSE /\ metrics' = EmptyMap
     ELSE UNCHANGED regVars
  /\ Goto(t, "RegCheck")
  /\ UNCHANGED <<muVars, valVars, loopVars, callVars, snapVars, atomVars, linVars>>

\* Mutant: Register without the duplicate check.
RegCheckSkip(t) ==
  /\ At(t, "RegCheck")
  /\ Goto(t, "RegInsert")
  /\ UNCHANGED <<regVars, muVars, valVars, loopVars, callVars, snapVars, atomVars, linVars>>

\* if _, exists := r.metrics[name]; exists { return ErrDuplicateMetric }
RegCheck(t) ==
  /\ At(t, "RegCheck")
  /\ UNCHANGED <<regVars, muVars, valVars, loopVars, op, argM, argN, argD, snapVars, atomVars>>
  /\ IF argN[t] \in DOMAIN metrics
     THEN /\ Ret(t, RErr(ErrDuplicateMetric))
          /\ Lin(t, "Register", argM[t], argN[t], RErr(ErrDuplicateMetric))
          /\ Goto(t, "RegUnlock")
     ELSE /\ Goto(t, "RegInsert")
          /\ UNCHANGED <<res, linVars>>

\* Mutant: the instrument is stored under a key that is not its name.
RegInsertWrongKey(t) ==
  /\ At(t, "RegInsert")
  /\ metrics' = MapPut(metrics, "b", argM[t])
  /\ metricsNil' = metricsNil
  /\ Ret(t, RVoid)
  /\ Lin(t, "Register", argM[t], argN[t], RVoid)
  /\ Goto(t, "RegUnlock")
  /\ UNCHANGED <<muVars, valVars, loopVars, op, argM, argN, argD, snapVars, atomVars>>

\* Mutant: the instrument is stored in a copy of the map that was read when
\* it was empty.
RegInsertReplace(t) ==
  /\ At(t, "RegInsert")
  /\ metrics' = MapPut(EmptyMap, argN[t], argM[t])
  /\ metricsNil' = metricsNil
  /\ Ret(t, RVoid)
  /\ Lin(t, "Register", argM[t], argN[t], RVoid)
  /\ Goto(t, "RegUnlock")
  /\ UNCHANGED <<muVars, valVars, loopVars, op, argM, argN, argD, snapVars, atomVars>>

\* r.metrics[name] = metric; return nil
RegInsert(t) ==
  /\ At(t, "RegInsert")
  /\ metrics' = MapPut(metrics, argN[t], argM[t])
  /\ metricsNil' = metricsNil
  /\ Ret(t, RVoid)
  /\ Lin(t, "Register", argM[t], argN[t], RVoid)
  /\ Goto(t, "RegUnlock")
  /\ UNCHANGED <<muVars, valVars, loopVars, op, argM, argN, argD, snapVars, atomVars>>

\* defer r.mu.Unlock(), and the return
\* Mutant: Register that unlocks by hand on the success path only.
RegUnlockOnSuccess(t) ==
  /\ At(t, "RegUnlock")
  /\ IF res[t] = RVoid THEN Unlock(t) ELSE UNCHANGED muVars
  /\ Leave(t)
  /\ UNCHANGED <<regVars, valVars, keptVars>>

RegUnlock(t) ==
  /\ At(t, "RegUnlock")
  /\ Unlock(t)
  /\ Leave(t)
  /\ UNCHANGED <<regVars, valVars, keptVars>>

\* ------------------------------------------------------- Registry.Unregister
UnregisterCall(t, n) ==
  /\ Enter(t, "Unregister", Nil, n, 0)
  /\ Ret(t, RVoid)
  /\ Goto(t, "UnregLock")
  /\ UNCHANGED <<regVars, muVars, valVars, loopVars, snapVars, atomVars, linVars>>

UnregLock(t) ==
  /\ At(t, "UnregLock")
  /\ LockAnnounce(t)
  /\ Goto(t, "UnregWait")
  /\ UNCHANGED <<regVars, valVars, loopVars, callVars, snapVars, atomVars, linVars>>

UnregWait(t) ==
  /\ At(t, "UnregWait")
  /\ LockAcquire(t)
  /\ Goto(t, "UnregCheck")
  /\ UNCHANGED <<regVars, valVars, loopVars, callVars, snapVars, atomVars, linVars>>

\* the two ErrMetricNotFound returns: nil map, or name absent
UnregCheck(t) ==
  /\ At(t, "UnregCheck")
  /\ UNCHANGED <<regVars, muVars, valVars, loopVars, op, argM, argN, argD, snapVars, atomVars>>
  /\ IF metricsNil \/ argN[t] \notin DOMAIN metrics
     THEN /\ Ret(t, RErr(ErrMetricNotFound))
          /\ Lin(t, "Unregister", Nil, argN[t], RErr(ErrMetricNotFound))
          /\ Goto(t, "UnregUnlock")
     ELSE /\ Goto(t, "UnregDelete")
          /\ UNCHANGED <<res, linVars>>

\* Mutant: Unregister that drops every entry.
UnregDeleteAll(t) ==
  /\ At(t, "UnregDelete")
  /\ metrics' = EmptyMap
  /\ metricsNil' = metricsNil
  /\ Ret(t, RVoid)
  /\ Lin(t, "Unregister", Nil, argN[t], RVoid)
  /\ Goto(t, "UnregUnlock")
  /\ UNCHANGED <<muVars, valVars, loopVars, op, argM, argN, argD, snapVars, atomVars>>

\* Mutant: Unregister that reports success and keeps the entry.
UnregDeleteKeep(t) ==
  /\ At(t, "UnregDelete")
  /\ UNCHANGED regVars
  /\ Ret(t, RVoid)
  /\ Lin(t, "Unregister", Nil, argN[t], RVoid)
  /\ Goto(t, "UnregUnlock")
  /\ UNCHANGED <<muVars, valVars, loopVars, op, argM, argN, argD, snapVars, atomVars>>

\* delete(r.metrics, name); return nil
UnregDelete(t) ==
  /\ At(t, "UnregDelete")
  /\ metrics' = MapDel(metrics, argN[t])
  /\ metricsNil' = metricsNil
  /\ Ret(t, RVoid)
  /\ Lin(t, "Unregister", Nil, argN[t], RVoid)
  /\ Goto(t, "UnregUnlock")
  /\ UNCHANGED <<muVars, valVars, loopVars, op, argM, argN, argD, snapVars, atomVars>>

\* defer r.mu.Unlock(), and the return
UnregUnlock(t) ==
  /\ At(t, "UnregUnlock")
  /\ Unlock(t)
  /\ Leave(t)
  /\ UNCHANGED <<regVars, valVars, keptVars>>

\* -------------------------------------------------------------- Registry.Get
GetCall(t, n) ==
  /\ Enter(t, "Get", Nil, n, 0)
  /\ Ret(t, RVoid)
  /\ Goto(t, "GetRLock")
  /\ UNCHANGED <<regVars, muVars, valVars, loopVars, snapVars, atomVars, linVars>>

GetRLock(t) ==
  /\ At(t, "GetRLock")
  /\ RLock(t)
  /\ Goto(t, "GetRead")
  /\ UNCHANGED <<regVars, valVars, loopVars, callVars, snapVars, atomVars, linVars>>

\* Mutant: Get reports not-found for a name that is present.
GetReadNotOk(t) ==
  LET r == IF metricsNil \/ argN[t] \notin DOMAIN metrics
           THEN RGet(Nil, FALSE)
           ELSE RGet(metrics[argN[t]], FALSE) IN
  /\ At(t, "GetRead")
  /\ UNCHANGED <<regVars, muVars, valVars, loopVars, op, argM, argN, argD, snapVars, atomVars>>
  /\ Ret(t, r)
  /\ Lin(t, "Get", Nil, argN[t], r)
  /\ Goto(t, "GetRUnlock")

\* Mutant: Get that reports every name as found.
GetReadAlwaysOk(t) ==
  LET r == IF metricsNil \/ argN[t] \notin DOMAIN metrics
           THEN RGet(Nil, TRUE)
           ELSE RGet(metrics[argN[t]], TRUE) IN
  /\ At(t, "GetRead")
  /\ UNCHANGED <<regVars, muVars, valVars, loopVars, op, argM, argN, argD, snapVars, atomVars>>
  /\ Ret(t, r)
  /\ Lin(t, "Get", Nil, argN[t], r)
  /\ Goto(t, "GetRUnlock")

\* nil map: return nil, false; else metric, exists := r.metrics[name]
GetRead(t) ==
  LET r == IF metricsNil \/ argN[t] \notin DOMAIN metrics
           THEN RGet(Nil, FALSE)
           ELSE RGet(metrics[argN[t]], TRUE) IN
  /\ At(t, "GetRead")
  /\ UNCHANGED <<regVars, muVars, valVars, loopVars, op, argM, argN, argD, snapVars, atomVars>>
  /\ Ret(t, r)
  /\ Lin(t, "Get", Nil, argN[t], r)
  /\ Goto(t, "GetRUnlock")

\* defer r.mu.RUnlock(), and the return
GetRUnlock(t) ==
  /\ At(t, "GetRUnlock")
  /\ RUnlock(t)
  /\ Leave(t)
  /\ UNCHANGED <<regVars, valVars, keptVars>>

\* -------------------------------------------------------------- Registry.Len
LenCall(t) ==
  /\ Enter(t, "Len", Nil, "", 0)
  /\ Ret(t, RVoid)
  /\ Goto(t, "LenRLock")
  /\ UNCHANGED <<regVars, muVars, valVars, loopVars, snapVars, atomVars, linVars>>

LenRLock(t) ==
  /\ At(t, "LenRLock")
  /\ RLock(t)
  /\ Goto(t, "LenRead")
  /\ UNCHANGED <<regVars, valVars, loopVars, callVars, snapVars, atomVars, linVars>>

\* Mutant: Len that counts one entry too few.
LenReadOffByOne(t) ==
  LET r == IF metricsNil \/ metrics = EmptyMap THEN RInt(0)
           ELSE RInt(Cardinality(DOMAIN metrics) - 1) IN
  /\ At(t, "LenRead")
  /\ UNCHANGED <<regVars, muVars, valVars, loopVars, op, argM, argN, argD, snapVars, atomVars>>
  /\ Ret(t, r)
  /\ Lin(t, "Len", Nil, "", r)
  /\ Goto(t, "LenRUnlock")

\* nil map: return 0; else return len(r.metrics)
LenRead(t) ==
  LET r == IF metricsNil THEN RInt(0) ELSE RInt(Cardinality(DOMAIN metrics)) IN
  /\ At(t, "LenRead")
  /\ UNCHANGED <<regVars, muVars, valVars, loopVars, op, argM, argN, argD, snapVars, atomVars>>
  /\ Ret(t, r)
  /\ Lin(t, "Len", Nil, "", r)
  /\ Goto(t, "LenRUnlock")

\* defer r.mu.RUnlock(), and the return
LenRUnlock(t) ==
  /\ At(t, "LenRUnlock")
  /\ RUnlock(t)
  /\ Leave(t)
  /\ UNCHANGED <<regVars, valVars, keptVars>>

\* ------------------------------------------------------------ Registry.Clear
ClearCall(t) ==
  /\ Enter(t, "Clear", Nil, "", 0)
  /\ Ret(t, RVoid)
  /\ Goto(t, "ClearLock")
  /\ UNCHANGED <<regVars, muVars, valVars, loopVars, snapVars, atomVars, linVars>>

ClearLock(t) ==
  /\ At(t, "ClearLock")
  /\ LockAnnounce(t)
  /\ Goto(t, "ClearWait")
  /\ UNCHANGED <<regVars, valVars, loopVars, callVars, snapVars, atomVars, linVars>>

ClearWait(t) ==
  /\ At(t, "ClearWait")
  /\ LockAcquire(t)
  /\ Goto(t, "ClearBody")
  /\ UNCHANGED <<regVars, valVars, loopVars, callVars, snapVars, atomVars, linVars>>

\* if r.metrics != nil { r.metrics = make(map[string]Metric, 16) }
\* Mutant: Clear with its test inverted (r.metrics == nil).
ClearBodyInverted(t) ==
  /\ At(t, "ClearBody")
  /\ IF metricsNil THEN metrics' = EmptyMap /\ metricsNil' = FALSE
     ELSE UNCHANGED regVars
  /\ Lin(t, "Clear", Nil, "", RVoid)
  /\ Goto(t, "ClearUnlock")
  /\ UNCHANGED <<muVars, valVars, loopVars, callVars, snapVars, atomVars>>

ClearBody(t) ==
  /\ At(t, "ClearBody")
  /\ IF metricsNil THEN UNCHANGED regVars
     ELSE metrics' = EmptyMap /\ metricsNil' = FALSE
  /\ Lin(t, "Clear", Nil, "", RVoid)
  /\ Goto(t, "ClearUnlock")
  /\ UNCHANGED <<muVars, valVars, loopVars, callVars, snapVars, atomVars>>

\* defer r.mu.Unlock(), and the return
ClearUnlock(t) ==
  /\ At(t, "ClearUnlock")
  /\ Unlock(t)
  /\ Leave(t)
  /\ UNCHANGED <<regVars, valVars, keptVars>>

\* ------------------------------------------------- Counter / Gauge accessors
\* Mutant: Value that returns a copy of the value made at construction.
CounterValueCached(c) == [type |-> "int64", v |-> base[c]]
\* Counter.Value: the int64 behind the interface{}.
CounterValue(c) == [type |-> "int64", v |-> value[c]]
\* Gauge.Value: the float64 behind the interface{}.
GaugeValue(g) == [type |-> "float64", v |-> value[g]]
\* metric.Value() through the Metric interface.
MetricValue(m) == IF m \in Counters THEN CounterValue(m) ELSE GaugeValue(m)

\* --------------------------------------------------------- Registry.Snapshot
SnapshotCall(t) ==
  /\ Enter(t, "Snapshot", Nil, "", 0)
  /\ Ret(t, RVoid)
  /\ Goto(t, "SnapRLock")
  /\ during' = [during EXCEPT ![t] =
                  [start |-> value, seen |-> [m \in Insts |-> {value[m]}],
                   joint |-> {value}]]
  /\ UNCHANGED <<regVars, muVars, value, counted, loopVars, snapVars, atomVars, linVars>>

\* Mutant: Snapshot that reads the map without the lock.
SnapRLockNone(t) ==
  /\ At(t, "SnapRLock")
  /\ Goto(t, "SnapBegin")
  /\ UNCHANGED <<regVars, muVars, valVars, loopVars, callVars, snapVars, atomVars, linVars>>

SnapRLock(t) ==
  /\ At(t, "SnapRLock")
  /\ RLock(t)
  /\ Goto(t, "SnapBegin")
  /\ UNCHANGED <<regVars, valVars, loopVars, callVars, snapVars, atomVars, linVars>>

\* nil map: return an empty map; else snapshot := make(...) and start the range
SnapBegin(t) ==
  /\ At(t, "SnapBegin")
  /\ snap' = [snap EXCEPT ![t] = EmptyMap]
  /\ IF metricsNil
     THEN iter' = [iter EXCEPT ![t] = {}] /\ Goto(t, "SnapRUnlock")
     ELSE iter' = [iter EXCEPT ![t] = DOMAIN metrics] /\ Goto(t, "SnapIter")
  /\ UNCHANGED <<regVars, muVars, valVars, loopVars, callVars, atomVars, linVars>>

\* one turn of `for name, metric := range r.metrics`, in any order; the loop
\* ends when every name was visited
SnapIter(t) ==
  /\ At(t, "SnapIter")
  /\ IF iter[t] = {}
     THEN Goto(t, "SnapRUnlock") /\ UNCHANGED snapVars
     ELSE \E n \in iter[t] :
            /\ iter' = [iter EXCEPT ![t] = iter[t] \ {n}]
            /\ snap' = [snap EXCEPT ![t] =
                         IF n \in DOMAIN metrics
                         THEN MapPut(snap[t], n, MetricValue(metrics[n]))
                         ELSE snap[t]]
            /\ UNCHANGED pc
  /\ UNCHANGED <<regVars, muVars, valVars, loopVars, callVars, atomVars, linVars>>

\* defer r.mu.RUnlock(), and the return
SnapRUnlock(t) ==
  /\ At(t, "SnapRUnlock")
  /\ RUnlock(t)
  /\ Leave(t)
  /\ during' = [during EXCEPT ![t] = NoDuring]
  /\ hiSnap' = [c \in Counters |->
                  IF /\ hiSnap[c].kept
                     /\ Name(c) \in DOMAIN snap[t]
                     /\ Present(Name(c))
                     /\ metrics[Name(c)] = c
                  THEN [hiSnap[c] EXCEPT !.v = Max(@, snap[t][Name(c)].v)]
                  ELSE hiSnap[c]]
  /\ UNCHANGED <<regVars, value, counted, left, base, hiLoad, gaugeVars, callerVars>>

\* ------------------------------------------------------------------ Counter
\* History of the calls on counter c: d more was asked for. The total is kept
\* as long as it fits an int64.
Count(c, d) ==
  [counted EXCEPT ![c] = IF @.exact /\ @.n + d <= IntMax
                         THEN [n |-> @.n + d, exact |-> TRUE]
                         ELSE [n |-> 0, exact |-> FALSE]]

\* Mutant: Inc that stores 1 instead of adding 1.
CounterIncStore(t, c) ==
  /\ Enter(t, "Inc", c, "", 0)
  /\ value' = [value EXCEPT ![c] = 1]
  /\ oldV' = [oldV EXCEPT ![t] = value[c]]
  /\ newV' = [newV EXCEPT ![t] = value'[c]]
  /\ during' = Track(c, value'[c])
  /\ counted' = Count(c, 1)
  /\ Ret(t, RVoid)
  /\ Goto(t, "InstReturn")
  /\ UNCHANGED <<regVars, muVars, loopVars, snapVars, linVars>>

\* Mutant: Inc that runs under the Registry's lock.
CounterIncLocked(t, c) ==
  /\ muW = NoThread
  /\ muR = {}
  /\ Enter(t, "Inc", c, "", 0)
  /\ value' = [value EXCEPT ![c] = Wrap(value[c] + 1)]
  /\ oldV' = [oldV EXCEPT ![t] = value[c]]
  /\ newV' = [newV EXCEPT ![t] = value'[c]]
  /\ during' = Track(c, value'[c])
  /\ counted' = Count(c, 1)
  /\ Ret(t, RVoid)
  /\ Goto(t, "InstReturn")
  /\ UNCHANGED <<regVars, muVars, loopVars, snapVars, linVars>>

\* c.value.Add(1)
CounterInc(t, c) ==
  /\ Enter(t, "Inc", c, "", 0)
  /\ value' = [value EXCEPT ![c] = Wrap(value[c] + 1)]
  /\ oldV' = [oldV EXCEPT ![t] = value[c]]
  /\ newV' = [newV EXCEPT ![t] = value'[c]]
  /\ during' = Track(c, value'[c])
  /\ counted' = Count(c, 1)
  /\ Ret(t, RVoid)
  /\ Goto(t, "InstReturn")
  /\ UNCHANGED <<regVars, muVars, loopVars, snapVars, linVars>>

\* Mutant: Add without the clamp of a negative delta.
CounterAddNoClamp(t, c, delta) ==
  /\ Enter(t, "Add", c, "", delta)
  /\ value' = [value EXCEPT ![c] = Wrap(value[c] + delta)]
  /\ oldV' = [oldV EXCEPT ![t] = value[c]]
  /\ newV' = [newV EXCEPT ![t] = value'[c]]
  /\ during' = Track(c, value'[c])
  /\ counted' = Count(c, Max(delta, 0))
  /\ Ret(t, RVoid)
  /\ Goto(t, "InstReturn")
  /\ UNCHANGED <<regVars, muVars, loopVars, snapVars, linVars>>

\* if delta < 0 { delta = 0 }; c.value.Add(delta)
CounterAdd(t, c, delta) ==
  /\ Enter(t, "Add", c, "", delta)
  /\ value' = [value EXCEPT ![c] = Wrap(value[c] + (IF delta < 0 THEN 0 ELSE delta))]
  /\ oldV' = [oldV EXCEPT ![t] = value[c]]
  /\ newV' = [newV EXCEPT ![t] = value'[c]]
  /\ during' = Track(c, value'[c])
  /\ counted' = Count(c, Max(delta, 0))
  /\ Ret(t, RVoid)
  /\ Goto(t, "InstReturn")
  /\ UNCHANGED <<regVars, muVars, loopVars, snapVars, linVars>>

\* return c.value.Load()
CounterLoad(t, c) ==
  /\ Enter(t, "Load", c, "", 0)
  /\ oldV' = [oldV EXCEPT ![t] = value[c]]
  /\ newV' = [newV EXCEPT ![t] = value[c]]
  /\ Ret(t, RInt(value[c]))
  /\ Goto(t, "InstReturn")
  /\ UNCHANGED <<regVars, muVars, valVars, loopVars, snapVars, linVars>>

\* -------------------------------------------------------------------- Gauge
\* g.value.Store(value)
GaugeSet(t, g, v) ==
  /\ Enter(t, "Set", g, "", v)
  /\ value' = [value EXCEPT ![g] = v]
  /\ oldV' = [oldV EXCEPT ![t] = value[g]]
  /\ newV' = [newV EXCEPT ![t] = v]
  /\ during' = Track(g, v)
  /\ stored' = [stored EXCEPT ![g] = v]
  /\ gsum' = [gsum EXCEPT ![g] = 0]
  /\ inexact' = [inexact EXCEPT ![g] = FALSE]
  /\ Ret(t, RVoid)
  /\ Goto(t, "InstReturn")
  /\ UNCHANGED <<regVars, muVars, left, base, hiSnap, hiLoad, callerVars, snapVars, linVars,
                 counted, outcome>>

\* Mutant: Add as a Load followed by a Store of the sum computed from a
\* value read earlier (here: the last stored one).
GaugeAddLost(t, g, delta) ==
  /\ Enter(t, "Add", g, "", delta)
  /\ value' = [value EXCEPT ![g] = FRound(stored[g] + delta)]
  /\ oldV' = [oldV EXCEPT ![t] = value[g]]
  /\ newV' = [newV EXCEPT ![t] = value'[g]]
  /\ during' = Track(g, value'[g])
  /\ gsum' = [gsum EXCEPT ![g] = @ + delta]
  /\ inexact' = [inexact EXCEPT ![g] = @ \/ FRound(stored[g] + delta) # stored[g] + delta]
  /\ Ret(t, RVoid)
  /\ Goto(t, "InstReturn")
  /\ UNCHANGED <<regVars, muVars, left, base, hiSnap, hiLoad, stored, callerVars, snapVars, linVars,
                 counted, outcome>>

\* Mutant: Add with the clamp of Counter.Add (a negative delta adds nothing).
GaugeAddClamp(t, g, delta) ==
  /\ Enter(t, "Add", g, "", delta)
  /\ value' = [value EXCEPT ![g] = FRound(value[g] + Max(delta, 0))]
  /\ oldV' = [oldV EXCEPT ![t] = value[g]]
  /\ newV' = [newV EXCEPT ![t] = value'[g]]
  /\ during' = Track(g, value'[g])
  /\ gsum' = [gsum EXCEPT ![g] = @ + delta]
  /\ inexact' = [inexact EXCEPT ![g] = @ \/ FRound(value[g] + delta) # value[g] + delta]
  /\ Ret(t, RVoid)
  /\ Goto(t, "InstReturn")
  /\ UNCHANGED <<regVars, muVars, left, base, hiSnap, hiLoad, stored, callerVars, snapVars, linVars,
                 counted, outcome>>

\* g.value.Add(delta): one atomic read-modify-write of the float64
GaugeAdd(t, g, delta) ==
  /\ Enter(t, "Add", g, "", delta)
  /\ value' = [value EXCEPT ![g] = FRound(value[g] + delta)]
  /\ oldV' = [oldV EXCEPT ![t] = value[g]]
  /\ newV' = [newV EXCEPT ![t] = value'[g]]
  /\ during' = Track(g, value'[g])
  /\ gsum' = [gsum EXCEPT ![g] = @ + delta]
  /\ inexact' = [inexact EXCEPT ![g] = @ \/ FRound(value[g] + delta) # value[g] + delta]
  /\ Ret(t, RVoid)
  /\ Goto(t, "InstReturn")
  /\ UNCHANGED <<regVars, muVars, left, base, hiSnap, hiLoad, stored, callerVars, snapVars, linVars,
                 counted, outcome>>

\* g.value.Add(1.0)
GaugeInc(t, g) == GaugeAdd(t, g, 1)

\* g.value.Add(-1.0)
GaugeDec(t, g) == GaugeAdd(t, g, 0 - 1)

\* return g.value.Load()
GaugeLoad(t, g) ==
  /\ Enter(t, "Load", g, "", 0)
  /\ oldV' = [oldV EXCEPT ![t] = value[g]]
  /\ newV' = [newV EXCEPT ![t] = value[g]]
  /\ Ret(t, RInt(value[g]))
  /\ Goto(t, "InstReturn")
  /\ UNCHANGED <<regVars, muVars, valVars, loopVars, snapVars, linVars>>

\* An instrument method returns; a worker loop has one iteration less to run.
InstReturn(t) ==
  /\ At(t, "InstReturn")
  /\ Leave(t)
  /\ left' = [left EXCEPT ![t] = IF left[t] > 0 THEN left[t] - 1 ELSE 0]
  /\ hiLoad' = IF op[t] = "Load" /\ argM[t] \in Counters
                THEN Max(hiLoad, res[t].n) ELSE hiLoad
  /\ UNCHANGED <<regVars, muVars, valVars, base, hiSnap, gaugeVars, callerVars>>

\* ------------------------------------------ the methods as whole operations
\* What each Registry method does when nothing runs beside it: the Registry
\* R = [nil, m, cap] it leaves (whether r.metrics is nil, its entries, the
\* capacity it was made with), the result it returns, and the map it returns.
\* A returned map is [nil, fresh, m]: whether it is the nil map, whether this
\* call made it, and its entries.
NoMap == [nil |-> TRUE, fresh |-> FALSE, m |-> EmptyMap]
Done(R, r) == [r |-> R, res |-> r, map |-> NoMap]

\* var r Registry
ZeroRegistry == [nil |-> TRUE, m |-> EmptyMap, cap |-> 0]
\* The capacity hint of NewRegistry(0), of the lazy allocation and of Clear.
DefaultCapacity == 16
\* make(map[string]Metric, capacity)
MakeMap(capacity) == [nil |-> FALSE, m |-> EmptyMap, cap |-> capacity]
\* NewRegistry(capacity)
NewRegistry(capacity) ==
  MakeMap(IF capacity <= 0 THEN DefaultCapacity ELSE capacity)

\* What the Go runtime does on a write to a nil map.
PanicNilMap == "panic: assignment to entry in nil map"

\* Mutant: Register without the allocation of the map on first use.
DoRegisterNoInit(R, m) ==
  IF m = Nil THEN Done(R, RErr(ErrNilMetric))
  ELSE IF Name(m) = "" THEN Done(R, RErr(ErrInvalidMetricName))
  ELSE IF Name(m) \in DOMAIN R.m
       THEN Done(R, RErr(ErrDuplicateMetric))
       ELSE IF R.nil
            THEN Done(R, RErr(PanicNilMap))
            ELSE Done([R EXCEPT !.m = MapPut(R.m, Name(m), m)], RVoid)

\* Mutant: Register that takes the capacity for a limit.
DoRegisterBounded(R, m) ==
  IF m = Nil THEN Done(R, RErr(ErrNilMetric))
  ELSE IF Name(m) = "" THEN Done(R, RErr(ErrInvalidMetricName))
  ELSE LET R1 == IF R.nil THEN MakeMap(DefaultCapacity) ELSE R IN
       IF Name(m) \in DOMAIN R1.m \/ Cardinality(DOMAIN R1.m) >= R1.cap
       THEN Done(R1, RErr(ErrDuplicateMetric))
       ELSE Done([R1 EXCEPT !.m = MapPut(R1.m, Name(m), m)], RVoid)

DoRegister(R, m) ==
  IF m = Nil THEN Done(R, RErr(ErrNilMetric))
  ELSE IF Name(m) = "" THEN Done(R, RErr(ErrInvalidMetricName))
  ELSE LET R1 == IF R.nil THEN MakeMap(DefaultCapacity) ELSE R IN
       IF Name(m) \in DOMAIN R1.m
       THEN Done(R1, RErr(ErrDuplicateMetric))
       ELSE IF R1.nil
            THEN Done(R1, RErr(PanicNilMap))
            ELSE Done([R1 EXCEPT !.m = MapPut(R1.m, Name(m), m)], RVoid)

DoUnregister(R, n) ==
  IF R.nil THEN Done(R, RErr(ErrMetricNotFound))
  ELSE IF n \notin DOMAIN R.m THEN Done(R, RErr(ErrMetricNotFound))
  ELSE Done([R EXCEPT !.m = MapDel(R.m, n)], RVoid)

DoGet(R, n) ==
  IF R.nil THEN Done(R, RGet(Nil, FALSE))
  ELSE IF n \in DOMAIN R.m THEN Done(R, RGet(R.m[n], TRUE))
  ELSE Done(R, RGet(Nil, FALSE))

DoLen(R) ==
  IF R.nil THEN Done(R, RInt(0))
  ELSE Done(R, RInt(Cardinality(DOMAIN R.m)))

DoClear(R) ==
  IF R.nil THEN Done(R, RVoid)
  ELSE Done(MakeMap(DefaultCapacity), RVoid)

\* Mutant: Snapshot that boxes the Metric itself, not its Value().
DoSnapshotRefs(R) ==
  IF R.nil
  THEN [r |-> R, res |-> RVoid, map |-> [nil |-> FALSE, fresh |-> TRUE, m |-> EmptyMap]]
  ELSE [r |-> R, res |-> RVoid,
        map |-> [nil |-> FALSE, fresh |-> TRUE,
                 m |-> [n \in DOMAIN R.m |-> [type |-> "Metric", v |-> R.m[n]]]]]

\* Mutant: Snapshot that fills and returns one map it keeps between calls.
DoSnapshotShared(R) ==
  IF R.nil
  THEN [r |-> R, res |-> RVoid, map |-> [nil |-> FALSE, fresh |-> FALSE, m |-> EmptyMap]]
  ELSE [r |-> R, res |-> RVoid,
        map |-> [nil |-> FALSE, fresh |-> FALSE,
                 m |-> [n \in DOMAIN R.m |-> MetricValue(R.m[n])]]]

\* Mutant: Snapshot that returns the nil map for a Registry without a map.
DoSnapshotNil(R) ==
  IF R.nil
  THEN [r |-> R, res |-> RVoid, map |-> NoMap]
  ELSE [r |-> R, res |-> RVoid,
        map |-> [nil |-> FALSE, fresh |-> TRUE,
                 m |-> [n \in DOMAIN R.m |-> MetricValue(R.m[n])]]]

\* Mutant: Snapshot that leaves out the instruments whose value is zero.
DoSnapshotNonZero(R) ==
  IF R.nil
  THEN [r |-> R, res |-> RVoid, map |-> [nil |-> FALSE, fresh |-> TRUE, m |-> EmptyMap]]
  ELSE [r |-> R, res |-> RVoid,
        map |-> [nil |-> FALSE, fresh |-> TRUE,
                 m |-> [n \in {x \in DOMAIN R.m : value[R.m[x]] # 0}
                          |-> MetricValue(R.m[n])]]]

\* nil map: return make(map[string]interface{}); else a new map holding
\* metric.Value() for every entry
DoSnapshot(R) ==
  IF R.nil
  THEN [r |-> R, res |-> RVoid, map |-> [nil |-> FALSE, fresh |-> TRUE, m |-> EmptyMap]]
  ELSE [r |-> R, res |-> RVoid,
        map |-> [nil |-> FALSE, fresh |-> TRUE,
                 m |-> [n \in DOMAIN R.m |-> MetricValue(R.m[n])]]]

\* ------------------------------------------------- a single-goroutine program
\* The goroutine of the sequential tests and examples.
Caller == "t1"
\* Its variables snapshot1 and snapshot2 (TestRegistry_BoundaryProtection).
Slots == {1, 2}
NoRef == 0 - 1
\* The map objects: one per variable, made by the call that assigned it, and
\* object 0, a map that no call made.
Objects == {0} \cup Slots
\* What `snapshot[name] = int64(999)` stores.
Poison == [type |-> "int64", v |-> 0 - 1]

NoOut == [res |-> RVoid, map |-> NoMap]
NoCall == [op |-> "none", m |-> Nil, name |-> "", slot |-> 0, wasNil |-> TRUE,
           vals |-> [m \in Insts |-> 0]]

\* What a reader of map S finds under every key.
Observed(S) ==
  [n \in DOMAIN S |-> IF S[n].type = "Metric" THEN MetricValue(S[n].v) ELSE S[n]]

seqFrame == <<regVars, muVars, valVars, pc, callVars, snapVars, atomVars,
              absRes, linPre, linPost, lastMut, left, base, hiSnap, hiLoad, gaugeVars,
              outcome>>

\* The caller makes call o on both Registries and keeps what they return.
Call(o, m, n, s, z, x) ==
  /\ pc[Caller] = "idle"
  /\ rz' = z.r
  /\ rn' = x.r
  /\ out' = [z |-> [res |-> z.res, map |-> z.map],
             n |-> [res |-> x.res, map |-> x.map]]
  /\ last' = [op |-> o, m |-> m, name |-> n, slot |-> s, wasNil |-> rz.nil,
              vals |-> IF o \in {"Snapshot", "Unregister", "Clear"}
                       THEN value ELSE [i \in Insts |-> 0]]
  /\ absEntries' = SeqApply(absEntries, o, m, n).E
  /\ UNCHANGED seqFrame

SeqRegister(m) ==
  /\ Call("Register", m, "", 0, DoRegister(rz, m), DoRegister(rn, m))
  /\ UNCHANGED <<held, ref, expect>>

\* Mutant: Unregister that also resets the instrument it removes.
SeqUnregisterReset(n) ==
  LET z == DoUnregister(rz, n)
      x == DoUnregister(rn, n)
  IN /\ pc[Caller] = "idle"
     /\ rz' = z.r
     /\ rn' = x.r
     /\ out' = [z |-> [res |-> z.res, map |-> z.map],
                n |-> [res |-> x.res, map |-> x.map]]
     /\ last' = [op |-> "Unregister", m |-> Nil, name |-> n, slot |-> 0,
                 wasNil |-> rz.nil, vals |-> value]
     /\ absEntries' = SeqApply(absEntries, "Unregister", Nil, n).E
     /\ value' = [i \in Insts |->
                   IF n \in DOMAIN rz.m /\ rz.m[n] = i THEN 0 ELSE value[i]]
     /\ UNCHANGED <<regVars, muVars, during, pc, callVars, snapVars, atomVars,
                    absRes, linPre, linPost, lastMut, left, base, hiSnap, hiLoad,
                    gaugeVars, held, ref, expect, counted, outcome>>

SeqUnregister(n) ==
  /\ Call("Unregister", Nil, n, 0, DoUnregister(rz, n), DoUnregister(rn, n))
  /\ UNCHANGED <<held, ref, expect>>

SeqGet(n) ==
  /\ Call("Get", Nil, n, 0, DoGet(rz, n), DoGet(rn, n))
  /\ UNCHANGED <<held, ref, expect>>

SeqLen ==
  /\ Call("Len", Nil, "", 0, DoLen(rz), DoLen(rn))
  /\ UNCHANGED <<held, ref, expect>>

SeqClear ==
  /\ Call("Clear", Nil, "", 0, DoClear(rz), DoClear(rn))
  /\ UNCHANGED <<held, ref, expect>>

\* snapshot_s := r.Snapshot(): the variable refers to the map returned
SeqSnapshot(s) ==
  LET z == DoSnapshot(rz)
      o == IF z.map.fresh THEN s ELSE 0
  IN /\ Call("Snapshot", Nil, "", s, z, DoSnapshot(rn))
     /\ held' = [held EXCEPT ![o] = z.map.m]
     /\ ref' = [ref EXCEPT ![s] = o]
     /\ expect' = [expect EXCEPT ![s] = Observed(z.map.m)]

\* snapshot_s[n] = e, by the caller
CallerPut(s, n, e) ==
  /\ pc[Caller] = "idle"
  /\ ref[s] # NoRef
  /\ held' = [held EXCEPT ![ref[s]] = MapPut(@, n, e)]
  /\ expect' = [expect EXCEPT ![s] = MapPut(@, n, e)]
  /\ last' = [NoCall EXCEPT !.op = "Put", !.name = n, !.slot = s, !.wasNil = rz.nil]
  /\ UNCHANGED <<rz, rn, out, ref, absEntries>>
  /\ UNCHANGED seqFrame

\* delete(snapshot_s, n), by the caller
CallerDelete(s, n) ==
  /\ pc[Caller] = "idle"
  /\ ref[s] # NoRef
  /\ held' = [held EXCEPT ![ref[s]] = MapDel(@, n)]
  /\ expect' = [expect EXCEPT ![s] = MapDel(@, n)]
  /\ last' = [NoCall EXCEPT !.op = "Delete", !.name = n, !.slot = s, !.wasNil = rz.nil]
  /\ UNCHANGED <<rz, rn, out, ref, absEntries>>
  /\ UNCHANGED seqFrame

\* ----------------------------------------------------------- specifications
\* Every thread is outside any call and the lock is free.
InitThreads ==
  /\ muW = NoThread
  /\ muR = {}
  /\ pc = [t \in AllThreads |-> "idle"]
  /\ op = [t \in AllThreads |-> "none"]
  /\ argM = [t \in AllThreads |-> Nil]
  /\ argN = [t \in AllThreads |-> ""]
  /\ argD = [t \in AllThreads |-> 0]
  /\ res = [t \in AllThreads |-> RVoid]
  /\ snap = [t \in AllThreads |-> EmptyMap]
  /\ iter = [t \in AllThreads |-> {}]
  /\ oldV = [t \in AllThreads |-> 0]
  /\ newV = [t \in AllThreads |-> 0]
  /\ absRes = [t \in AllThreads |-> RVoid]
  /\ linPre = [t \in AllThreads |-> NoState]
  /\ linPost = [t \in AllThreads |-> NoState]
  /\ lastMut = NoMut
  /\ hiLoad = 0
  /\ during = [t \in AllThreads |-> NoDuring]
  /\ gsum = [g \in Gauges |-> 0]
  /\ inexact = [g \in Gauges |-> FALSE]
  /\ out = [z |-> NoOut, n |-> NoOut]
  /\ last = NoCall
  /\ held = [o \in Objects |-> EmptyMap]
  /\ ref = [s \in Slots |-> NoRef]
  /\ expect = [s \in Slots |-> EmptyMap]

\* var r Registry (the zero value); every instrument fresh from its constructor.
Init ==
  /\ InitThreads
  /\ metricsNil = TRUE
  /\ metrics = EmptyMap
  /\ absEntries = EmptyMap
  /\ value = [m \in Insts |-> 0]
  /\ base = value
  /\ stored = [g \in Gauges |-> value[g]]
  /\ counted = [c \in Counters |-> [n |-> value[c], exact |-> TRUE]]
  /\ hiSnap = [c \in Counters |-> [kept |-> FALSE, v |-> 0]]
  /\ outcome = [t \in AllThreads |-> NoOutcome]
  /\ rz = ZeroRegistry
  /\ rn = NewRegistry(0)
  /\ left = [t \in AllThreads |-> 0]

\* Any number of goroutines calling the Registry's methods.
Next ==
  \E t \in Threads :
    \/ \E m \in Insts \cup {Nil} : RegisterCall(t, m)
    \/ RegReturn(t) \/ RegLock(t) \/ RegWait(t) \/ RegInit(t) \/ RegCheck(t)
    \/ RegInsert(t) \/ RegUnlock(t)
    \/ \E n \in Names : UnregisterCall(t, n)
    \/ UnregLock(t) \/ UnregWait(t) \/ UnregCheck(t)
    \/ UnregDelete(t) \/ UnregUnlock(t)
    \/ \E n \in Names : GetCall(t, n)
    \/ GetRLock(t) \/ GetRead(t) \/ GetRUnlock(t)
    \/ LenCall(t) \/ LenRLock(t) \/ LenRead(t) \/ LenRUnlock(t)
    \/ ClearCall(t) \/ ClearLock(t) \/ ClearWait(t)
    \/ ClearBody(t) \/ ClearUnlock(t)
    \/ SnapshotCall(t) \/ SnapRLock(t) \/ SnapBegin(t)
    \/ SnapIter(t) \/ SnapRUnlock(t)

Spec == Init /\ [][Next]_vars

\* wg.Wait() has returned: every worker loop has run to its end.
WorkersDone == \A t \in Threads : left[t] = 0 /\ pc[t] = "idle"

\* A Registry holding counter c1, and worker goroutines about to increment it
\* (TestCounter_Concurrent, ExampleRegistry_concurrent).
InitWorkers ==
  /\ InitThreads
  /\ metricsNil = FALSE
  /\ metrics = [n \in {"a"} |-> "c1"]
  /\ absEntries = metrics
  /\ \E b \in 0..MaxBase : value = [m \in Insts |-> IF m = "c1" THEN b ELSE 0]
  /\ base = value
  /\ stored = [g \in Gauges |-> value[g]]
  /\ counted = [c \in Counters |-> [n |-> value[c], exact |-> TRUE]]
  /\ hiSnap = [c \in Counters |-> [kept |-> FALSE, v |-> 0]]
  /\ outcome = [t \in AllThreads |-> NoOutcome]
  /\ rz = ZeroRegistry
  /\ rn = NewRegistry(0)
  /\ left = [t \in AllThreads |-> IF t \in Threads THEN IncPerWorker ELSE 0]

\* The workers increment; after wg.Wait() the main goroutine loads the
\* counter and takes a snapshot.
NextWorkers ==
  \/ \E t \in Threads : left[t] > 0 /\ CounterInc(t, "c1")
  \/ \E t \in AllThreads : InstReturn(t)
  \/ WorkersDone /\ CounterLoad(Main, "c1")
  \/ WorkersDone /\ SnapshotCall(Main)
  \/ SnapRLock(Main) \/ SnapBegin(Main) \/ SnapIter(Main) \/ SnapRUnlock(Main)

SpecWorkers == InitWorkers /\ [][NextWorkers]_vars

\* One goroutine calling the methods of counter c1 with any delta.
NextCounter ==
  \/ CounterInc("t1", "c1")
  \/ \E d \in IntMin..IntMax : CounterAdd("t1", "c1", d)
  \/ CounterLoad("t1", "c1")
  \/ InstReturn("t1")

SpecCounter == Init /\ [][NextCounter]_vars

\* The values the single-goroutine program gives to its gauge.
GaugeVals == {0, 1}

\* One goroutine calling the Registry's methods on `var r Registry` and on
\* NewRegistry(0) alike, and the methods of the instruments c1 and g1.
NextSeq ==
  \/ \E m \in Insts \cup {Nil} : SeqRegister(m)
  \/ \E n \in Names : SeqUnregister(n)
  \/ \E n \in Names : SeqGet(n)
  \/ SeqLen
  \/ SeqClear
  \/ SeqSnapshot(1)
  \/ value["c1"] < MaxVal /\ CounterInc(Caller, "c1")
  \/ CounterLoad(Caller, "c1")
  \/ \E v \in GaugeVals : GaugeSet(Caller, "g1", v)
  \/ value["g1"] + 1 \in GaugeVals /\ GaugeInc(Caller, "g1")
  \/ value["g1"] - 1 \in GaugeVals /\ GaugeDec(Caller, "g1")
  \/ GaugeLoad(Caller, "g1")
  \/ InstReturn(Caller)

SpecSeq == Init /\ [][NextSeq]_vars

\* One goroutine that keeps two snapshots of `var r Registry`, changes the
\* Registry and the instruments between them, and writes to the maps.
NextOwner ==
  \/ \E m \in {"c1", "g1"} : SeqRegister(m)
  \/ \E n \in Names \ {""} : SeqUnregister(n)
  \/ SeqClear
  \/ \E s \in Slots : SeqSnapshot(s)
  \/ value["c1"] < MaxVal /\ CounterInc(Caller, "c1")
  \/ InstReturn(Caller)
  \/ \E s \in Slots : \E n \in {"a", "new_key"} : CallerPut(s, n, Poison)
  \/ \E s \in Slots : \E n \in {"a"} : CallerDelete(s, n)

SpecOwner == Init /\ [][NextOwner]_vars

\* The capacities given to NewRegistry: negative, zero, less than the number
\* of names, and more.
Capacities == {0 - 1, 0, 1, 100}

\* Two Registries built by NewRegistry, each with a capacity of its own.
InitCap ==
  /\ InitThreads
  /\ metricsNil = TRUE
  /\ metrics = EmptyMap
  /\ absEntries = EmptyMap
  /\ value = [m \in Insts |-> 0]
  /\ base = value
  /\ stored = [g \in Gauges |-> value[g]]
  /\ counted = [c \in Counters |-> [n |-> value[c], exact |-> TRUE]]
  /\ hiSnap = [c \in Counters |-> [kept |-> FALSE, v |-> 0]]
  /\ outcome = [t \in AllThreads |-> NoOutcome]
  /\ left = [t \in AllThreads |-> 0]
  /\ \E c \in Capacities : rz = NewRegistry(c)
  /\ \E c \in Capacities : rn = NewRegistry(c)

\* One goroutine calling the methods of both Registries alike.
NextCap ==
  \/ \E m \in Insts \cup {Nil} : SeqRegister(m)
  \/ \E n \in Names : SeqUnregister(n)
  \/ \E n \in Names : SeqGet(n)
  \/ SeqLen
  \/ SeqClear
  \/ SeqSnapshot(1)

SpecCap == InitCap /\ [][NextCap]_vars

\* `var r Registry`, and two goroutines whose Register call is awaited.
InitRace ==
  /\ InitThreads
  /\ metricsNil = TRUE
  /\ metrics = EmptyMap
  /\ absEntries = EmptyMap
  /\ value = [m \in Insts |-> 0]
  /\ base = value
  /\ stored = [g \in Gauges |-> value[g]]
  /\ counted = [c \in Counters |-> [n |-> value[c], exact |-> TRUE]]
  /\ hiSnap = [c \in Counters |-> [kept |-> FALSE, v |-> 0]]
  /\ outcome = [t \in AllThreads |-> IF t \in Threads THEN Awaited ELSE NoOutcome]
  /\ left = [t \in AllThreads |-> 0]
  /\ rz = ZeroRegistry
  /\ rn = NewRegistry(0)

\* Each of the two goroutines registers one instrument, of the same name as
\* the other's or not, while the main goroutine calls Get, Len and Snapshot.
NextRace ==
  \/ \E t \in Threads : \E m \in {"c1", "c2", "g1"} :
       outcome[t] = Awaited /\ RegisterCall(t, m)
  \/ \E t \in Threads :
       \/ RegLock(t) \/ RegWait(t) \/ RegInit(t) \/ RegCheck(t)
       \/ RegInsert(t) \/ RegUnlock(t)
  \/ \E n \in {"a", "b"} : GetCall(Main, n)
  \/ GetRLock(Main) \/ GetRead(Main) \/ GetRUnlock(Main)
  \/ LenCall(Main) \/ LenRLock(Main) \/ LenRead(Main) \/ LenRUnlock(Main)
  \/ SnapshotCall(Main) \/ SnapRLock(Main) \/ SnapBegin(Main)
  \/ SnapIter(Main) \/ SnapRUnlock(Main)

SpecRace == InitRace /\ [][NextRace]_vars

\* The goroutine that takes snapshots, and the one that updates instruments.
Reader == "t1"
Updater == "t2"
\* The deltas the updating goroutine passes to Counter.Add and Gauge.Add.
Deltas == {0 - 1, 1}

\* A Registry built by NewRegistry holding counter c1 and gauge g1; the
\* counter is new or was counted up to just below the largest int64.
InitSnap ==
  /\ InitThreads
  /\ metricsNil = FALSE
  /\ metrics = [n \in {"a", "b"} |-> IF n = "a" THEN "c1" ELSE "g1"]
  /\ absEntries = metrics
  /\ \E b \in {0, IntMax - 1} : value = [m \in Insts |-> IF m = "c1" THEN b ELSE 0]
  /\ base = value
  /\ stored = [g \in Gauges |-> value[g]]
  /\ counted = [c \in Counters |-> [n |-> value[c], exact |-> TRUE]]
  /\ hiSnap = [c \in Counters |-> [kept |-> TRUE, v |-> value[c]]]
  /\ outcome = [t \in AllThreads |-> NoOutcome]
  /\ rz = ZeroRegistry
  /\ rn = NewRegistry(0)
  /\ left = [t \in AllThreads |-> IF t = Updater THEN MaxUpdates ELSE 0]

\* One goroutine takes snapshots while another one updates the instruments.
NextSnap ==
  \/ SnapshotCall(Reader) \/ SnapRLock(Reader) \/ SnapBegin(Reader)
  \/ SnapIter(Reader) \/ SnapRUnlock(Reader)
  \/ left[Updater] > 0 /\ CounterInc(Updater, "c1")
  \/ left[Updater] > 0 /\ \E d \in Deltas : CounterAdd(Updater, "c1", d)
  \/ left[Updater] > 0 /\ \E v \in 0..1 : GaugeSet(Updater, "g1", v)
  \/ left[Updater] > 0 /\ GaugeInc(Updater, "g1")
  \/ left[Updater] > 0 /\ GaugeDec(Updater, "g1")
  \/ InstReturn(Updater)

SpecSnap == InitSnap /\ [][NextSnap]_vars

\* One goroutine calls the Registry's methods, holding its lock in turn for
\* reading and for writing, while another one calls every method of the
\* registered counter and gauge.
NextBypass ==
  \/ RegisterCall(Reader, "c2")
  \/ RegLock(Reader) \/ RegWait(Reader) \/ RegInit(Reader) \/ RegCheck(Reader)
  \/ RegUnlock(Reader)
  \/ GetCall(Reader, "a")
  \/ GetRLock(Reader) \/ GetRead(Reader) \/ GetRUnlock(Reader)
  \/ SnapshotCall(Reader) \/ SnapRLock(Reader) \/ SnapBegin(Reader)
  \/ SnapIter(Reader) \/ SnapRUnlock(Reader)
  \/ left[Updater] > 0 /\ CounterInc(Updater, "c1")
  \/ left[Updater] > 0 /\ \E d \in Deltas : CounterAdd(Updater, "c1", d)
  \/ left[Updater] > 0 /\ CounterLoad(Updater, "c1")
  \/ left[Updater] > 0 /\ \E v \in GaugeVals : GaugeSet(Updater, "g1", v)
  \/ left[Updater] > 0 /\ GaugeInc(Updater, "g1")
  \/ left[Updater] > 0 /\ GaugeDec(Updater, "g1")
  \/ left[Updater] > 0 /\ \E d \in Deltas : GaugeAdd(Updater, "g1", d)
  \/ left[Updater] > 0 /\ GaugeLoad(Updater, "g1")
  \/ InstReturn(Updater)

SpecBypass == InitSnap /\ [][NextBypass]_vars

\* The arguments the single goroutine passes to Gauge.Set and to Gauge.Add.
SetVals == {0 - 3, 0, 1}
AddVals == {0 - 2, 2}

\* One goroutine calling the methods of the new gauge g1; it stops adding
\* once a sum was rounded, until the next Set.
NextGaugeSeq ==
  \/ \E v \in SetVals : GaugeSet(Caller, "g1", v)
  \/ ~inexact["g1"] /\ GaugeInc(Caller, "g1")
  \/ ~inexact["g1"] /\ GaugeDec(Caller, "g1")
  \/ \E d \in AddVals : ~inexact["g1"] /\ GaugeAdd(Caller, "g1", d)
  \/ GaugeLoad(Caller, "g1")
  \/ InstReturn(Caller)

SpecGaugeSeq == Init /\ [][NextGaugeSeq]_vars

\* On a Registry that holds counter c1 under "a" and gauge g1 under "b", the
\* goroutines remove names, clear the Registry, register c1 again or c2 in
\* its place, and look the name up.
NextReuse ==
  \E t \in Threads :
    \/ \E m \in {"c1", "c2"} : RegisterCall(t, m)
    \/ RegLock(t) \/ RegWait(t) \/ RegInit(t) \/ RegCheck(t)
    \/ RegInsert(t) \/ RegUnlock(t)
    \/ UnregisterCall(t, "a")
    \/ UnregLock(t) \/ UnregWait(t) \/ UnregCheck(t)
    \/ UnregDelete(t) \/ UnregUnlock(t)
    \/ ClearCall(t) \/ ClearLock(t) \/ ClearWait(t)
    \/ ClearBody(t) \/ ClearUnlock(t)
    \/ GetCall(t, "a")
    \/ GetRLock(t) \/ GetRead(t) \/ GetRUnlock(t)

SpecReuse == InitSnap /\ [][NextReuse]_vars

\* A goroutine starts a call: Registry methods on the counter c1, the nil
\* Metric and the nameless e0, and updates of c1 and g1.
StartCall(t) ==
  \/ \E m \in {"c1", "e0", Nil} : RegisterCall(t, m)
  \/ UnregisterCall(t, "a")
  \/ GetCall(t, "a")
  \/ LenCall(t)
  \/ ClearCall(t)
  \/ SnapshotCall(t)
  \/ value["c1"] < MaxVal /\ CounterInc(t, "c1")
  \/ value["g1"] > 0 - MaxVal /\ GaugeDec(t, "g1")

\* A goroutine inside a call takes its next step.
Progress(t) ==
  \/ RegReturn(t) \/ RegLock(t) \/ RegWait(t) \/ RegInit(t) \/ RegCheck(t)
  \/ RegInsert(t) \/ RegUnlock(t)
  \/ UnregLock(t) \/ UnregWait(t) \/ UnregCheck(t)
  \/ UnregDelete(t) \/ UnregUnlock(t)
  \/ GetRLock(t) \/ GetRead(t) \/ GetRUnlock(t)
  \/ LenRLock(t) \/ LenRead(t) \/ LenRUnlock(t)
  \/ ClearLock(t) \/ ClearWait(t) \/ ClearBody(t) \/ ClearUnlock(t)
  \/ SnapRLock(t) \/ SnapBegin(t) \/ SnapIter(t) \/ SnapRUnlock(t)
  \/ InstReturn(t)

NextFair == \E t \in Threads : StartCall(t) \/ Progress(t)

\* The Go scheduler runs every runnable goroutine, and sync.RWMutex lets no
\* goroutine wait forever for a lock that is released again and again; a
\* goroutine outside a call need not start another one.
Fairness == \A t \in Threads : SF_vars(Progress(t))

SpecFair == Init /\ [][NextFair]_vars /\ Fairness

\* A gauge that is new, or was set to the first float that Inc cannot leave,
\* and the goroutines about to update it (TestGauge_Concurrent).
InitGauge ==
  /\ InitThreads
  /\ metricsNil = TRUE
  /\ metrics = EmptyMap
  /\ absEntries = EmptyMap
  /\ \E b \in {0, FloatLimit} : value = [m \in Insts |-> IF m = "g1" THEN b ELSE 0]
  /\ base = value
  /\ stored = [g \in Gauges |-> value[g]]
  /\ counted = [c \in Counters |-> [n |-> value[c], exact |-> TRUE]]
  /\ hiSnap = [c \in Counters |-> [kept |-> FALSE, v |-> 0]]
  /\ outcome = [t \in AllThreads |-> NoOutcome]
  /\ rz = ZeroRegistry
  /\ rn = NewRegistry(0)
  /\ left = [t \in AllThreads |-> IF t \in Threads THEN GaugePerWorker ELSE 0]

\* One goroutine increments, the other decrements, both add deltas of either
\* sign; after wg.Wait() the main goroutine loads the gauge.
NextGauge ==
  \/ left["t1"] > 0 /\ GaugeInc("t1", "g1")
  \/ left["t2"] > 0 /\ GaugeDec("t2", "g1")
  \/ \E t \in Threads : \E d \in {0 - 2, 2} : left[t] > 0 /\ GaugeAdd(t, "g1", d)
  \/ \E t \in AllThreads : InstReturn(t)
  \/ WorkersDone /\ GaugeLoad(Main, "g1")

SpecGauge == InitGauge /\ [][NextGauge]_vars

\* ------------------------------------------------------------------ claims
\* The thread is inside the critical section of Register, Unregister or Clear.
InWriteCS(t) ==
  pc[t] \in {"RegInit", "RegCheck", "RegInsert", "RegUnlock", "UnregCheck",
             "UnregDelete", "UnregUnlock", "ClearBody", "ClearUnlock"}
\* The thread is inside the critical section of Get, Snapshot or Len.
InReadCS(t) ==
  pc[t] \in {"GetRead", "GetRUnlock", "LenRead", "LenRUnlock", "SnapBegin",
             "SnapIter", "SnapRUnlock"}
\* The thread is about to call Lock or RLock, or is blocked in it.
AtLock(t) ==
  pc[t] \in {"RegLock", "RegWait", "UnregLock", "UnregWait", "ClearLock",
             "ClearWait", "GetRLock", "LenRLock", "SnapRLock"}
\* The thread's Registry call has taken effect and is about to return res[t].
Returning(t) ==
  pc[t] \in {"RegReturn", "RegUnlock", "UnregUnlock", "GetRUnlock",
             "LenRUnlock", "ClearUnlock"}
Size(E) == Cardinality(DOMAIN E)

\* C1: at most one of Register, Unregister, Clear is inside its critical
\* section, and while one is inside no Get, Snapshot or Len is inside its own.
C1_WriterExcludesAll ==
  \A t \in AllThreads : InWriteCS(t) =>
    \A u \in AllThreads \ {t} : ~InWriteCS(u) /\ ~InReadCS(u)

\* A writer is inside while another thread stands at the lock.
C1_Witness ==
  \E t \in AllThreads : \E u \in AllThreads \ {t} : InWriteCS(t) /\ AtLock(u)

\* C2: the concurrent Registry refines the sequential one: every call takes
\* effect in one step between its invocation and its return, the entry map
\* always equals the sequential entry set, and every call returns what the
\* sequential Registry returns at that step.
C2_Linearizable ==
  /\ metrics = absEntries
  /\ \A t \in AllThreads : Returning(t) => res[t] = absRes[t]

\* A Register has failed as a duplicate while an overlapping Unregister of the
\* same name has not yet taken the lock.
C2_Witness ==
  \E t \in AllThreads : \E u \in AllThreads \ {t} :
    /\ pc[t] = "RegUnlock" /\ res[t] = RErr(ErrDuplicateMetric)
    /\ pc[u] = "UnregLock" /\ argN[u] = argN[t]

\* C3: every key of the entry map maps to a non-nil instrument whose Name()
\* is that key (one instrument per name), and a nil map has no key.
C3_EntryInvariant ==
  /\ \A n \in DOMAIN metrics : metrics[n] \in Insts /\ Name(metrics[n]) = n
  /\ metricsNil => DOMAIN metrics = {}

\* Two names are registered.
C3_Witness == Size(metrics) = 2

\* C4: a Register of an instrument whose name is not present succeeds and
\* stores that very reference under its name, and a Get of that name that
\* takes effect with no Register, Unregister or Clear in between returns
\* found with the same reference.
C4_RegisterThenGet ==
  /\ \A t \in AllThreads :
       (pc[t] = "RegUnlock" /\ argN[t] \notin DOMAIN linPre[t].m) =>
         /\ res[t] = RVoid
         /\ argN[t] \in DOMAIN linPost[t].m
         /\ linPost[t].m[argN[t]] = argM[t]
  /\ \A t \in AllThreads :
       (pc[t] = "GetRUnlock" /\ lastMut.op = "Register" /\ lastMut.name = argN[t]) =>
         res[t] = RGet(lastMut.m, TRUE)

\* A Get returns the instrument registered just before it.
C4_Witness ==
  \E t \in AllThreads :
    /\ pc[t] = "GetRUnlock" /\ lastMut.op = "Register"
    /\ lastMut.name = argN[t] /\ res[t].ok /\ res[t].m = "c2"

\* C5: a Register whose name is present fails with ErrDuplicateMetric and
\* leaves the Registry as it was: the name still maps to the first instrument
\* and the number of entries is the same.
C5_DuplicateRejected ==
  \A t \in AllThreads :
    (pc[t] = "RegUnlock" /\ argN[t] \in DOMAIN linPre[t].m) =>
      /\ res[t] = RErr(ErrDuplicateMetric)
      /\ linPost[t] = linPre[t]
      /\ metrics = linPre[t].m
      /\ Size(metrics) = Size(linPre[t].m)

\* A second instrument with the name of a registered one was rejected.
C5_Witness ==
  \E t \in AllThreads :
    /\ pc[t] = "RegUnlock" /\ argN[t] \in DOMAIN linPre[t].m
    /\ linPre[t].m[argN[t]] # argM[t]

\* C6: Register(nil) fails with the nil-metric error and Register of an
\* instrument with the empty name fails with ErrInvalidMetricName; such a call
\* never reaches the lock and leaves the Registry's fields as they were.
C6_InvalidRegister ==
  \A t \in AllThreads :
    /\ (op[t] = "Register" /\ (argM[t] = Nil \/ argN[t] = "")) => pc[t] = "RegReturn"
    /\ pc[t] = "RegReturn" =>
         /\ argM[t] = Nil => res[t] = RErr(ErrNilMetric)
         /\ argM[t] # Nil => (Name(argM[t]) = "" /\ res[t] = RErr(ErrInvalidMetricName))
         /\ linPost[t] = linPre[t]
         /\ Size(linPost[t].m) = Size(linPre[t].m)

\* Both rejections happen on a Registry that holds entries.
C6_Witness ==
  \E t \in AllThreads : \E u \in AllThreads \ {t} :
    /\ pc[t] = "RegReturn" /\ argM[t] = Nil
    /\ pc[u] = "RegReturn" /\ argM[u] = "e0"
    /\ Size(metrics) = 2

\* C7: Unregister of a name that is not present (also on a nil map) fails with
\* ErrMetricNotFound and leaves the Registry as it was; Unregister of a present
\* name succeeds, removes that name and no other (one entry less), and a Get of
\* that name that takes effect before any other change reports not-found.
C7_Unregister ==
  /\ \A t \in AllThreads : pc[t] = "UnregUnlock" =>
       IF argN[t] \in DOMAIN linPre[t].m
       THEN /\ res[t] = RVoid
            /\ linPost[t].m = MapDel(linPre[t].m, argN[t])
            /\ Size(linPost[t].m) = Size(linPre[t].m) - 1
       ELSE /\ res[t] = RErr(ErrMetricNotFound)
            /\ linPost[t] = linPre[t]
  /\ \A t \in AllThreads :
       (pc[t] = "GetRUnlock" /\ lastMut.op = "Unregister" /\ lastMut.name = argN[t]) =>
         res[t] = RGet(Nil, FALSE)

\* A name was removed while another stays, and a Get of the removed name
\* has answered.
C7_Witness ==
  \E t \in AllThreads :
    /\ pc[t] = "GetRUnlock" /\ lastMut.op = "Unregister"
    /\ lastMut.name = argN[t] /\ Size(metrics) = 1

\* Unregister has failed on a Registry whose map was never allocated.
C7_WitnessNil ==
  \E t \in AllThreads :
    pc[t] = "UnregUnlock" /\ linPre[t].nil /\ res[t] = RErr(ErrMetricNotFound)

\* C8: when every worker has made its IncPerWorker calls of Inc, the counter
\* is exactly (number of workers) * IncPerWorker above its initial value, and
\* the Load and the Snapshot made afterwards report that total.
C8_NoLostIncrement ==
  LET total == base["c1"] + Cardinality(Threads) * IncPerWorker IN
  /\ WorkersDone => value["c1"] = total
  /\ (pc[Main] = "InstReturn" /\ op[Main] = "Load") => res[Main] = RInt(total)
  /\ pc[Main] = "SnapRUnlock" =>
       snap[Main] = [n \in {"a"} |-> [type |-> "int64", v |-> total]]

\* The main goroutine holds the snapshot of a counter that started above 0.
C8_Witness == pc[Main] = "SnapRUnlock" /\ base["c1"] = 1

\* C9: Counter.Add with a negative delta leaves the value as it found it and
\* reports nothing; with delta >= 0 it adds delta (int64 addition).
C9_AddClamps ==
  \A t \in AllThreads : (pc[t] = "InstReturn" /\ op[t] = "Add") =>
    /\ res[t] = RVoid
    /\ value[argM[t]] = newV[t]
    /\ argD[t] < 0 => newV[t] = oldV[t]
    /\ argD[t] >= 0 => newV[t] = Wrap(oldV[t] + argD[t])

\* A negative delta was added to a counter that holds a positive value.
C9_Witness ==
  \E t \in AllThreads :
    pc[t] = "InstReturn" /\ op[t] = "Add" /\ argD[t] < 0 /\ oldV[t] > 0

\* C10: every Counter.Load() is >= 0 and >= every Load() that returned before.
C10_LoadMonotone ==
  \A t \in AllThreads : (pc[t] = "InstReturn" /\ op[t] = "Load") =>
    res[t].n >= 0 /\ res[t].n >= hiLoad

\* The value v of instrument m as Value() boxes it: an int64 for a Counter,
\* a float64 for a Gauge.
Boxed(m, v) == [type |-> IF m \in Counters THEN "int64" ELSE "float64", v |-> v]

\* C11: in a program of one goroutine, Snapshot() returns a map whose keys
\* are exactly the names registered (and not removed) so far, each mapped to
\* the value its instrument holds at the call: an integer for a Counter, a
\* float for a Gauge.
C11_SnapshotExact ==
  last.op = "Snapshot" =>
    /\ ~out.z.map.nil
    /\ DOMAIN out.z.map.m = DOMAIN absEntries
    /\ \A n \in DOMAIN absEntries :
         out.z.map.m[n] = Boxed(absEntries[n], last.vals[absEntries[n]])

\* A snapshot of two instruments, one of them a counter that was incremented.
C11_Witness ==
  /\ last.op = "Snapshot"
  /\ DOMAIN absEntries = {"a", "b"}
  /\ out.z.map.m["a"] = [type |-> "int64", v |-> 1]
  /\ out.z.map.m["b"].type = "float64"

\* What Snapshot() returns for the entries E when every instrument holds vals.
SnapshotOf(E, vals) == [n \in DOMAIN E |-> Boxed(E[n], vals[E[n]])]

\* C12: a snapshot the caller holds reads, key by key, as it did when it was
\* returned, whatever was done since to the instruments (Inc) or to the
\* Registry (Register, Unregister, Clear); a snapshot taken afterwards shows
\* the entries and the values of the moment it was taken.
C12_SnapshotStable ==
  /\ \A s \in Slots : ref[s] # NoRef => Observed(held[ref[s]]) = expect[s]
  /\ last.op = "Snapshot" =>
       Observed(held[ref[last.slot]]) = SnapshotOf(absEntries, last.vals)

\* snapshot1 was taken with counter a at 0 and no gauge; after an Inc and a
\* Register, snapshot2 shows a at 1 and the gauge b.
C12_Witness ==
  /\ last.op = "Snapshot"
  /\ last.slot = 2
  /\ ref[1] # NoRef
  /\ DOMAIN expect[1] = {"a"}
  /\ held[ref[1]]["a"] = [type |-> "int64", v |-> 0]
  /\ DOMAIN held[ref[2]] = {"a", "b"}
  /\ held[ref[2]]["a"] = [type |-> "int64", v |-> 1]

\* C13: when the caller overwrites, adds or deletes a key of a snapshot, the
\* step changes neither the Registry nor any instrument's value; afterwards
\* the other snapshot it holds reads as before, the Registry has the entries
\* it had, Get finds every instrument, and a new Snapshot() shows the entries
\* and their current values.
C13_CallerOwnsSnapshot ==
  /\ [](last.op \in {"Put", "Delete"} =>
         /\ \A s \in Slots \ {last.slot} :
              ref[s] # NoRef => Observed(held[ref[s]]) = expect[s]
         /\ rz.m = absEntries
         /\ \A n \in DOMAIN absEntries : DoGet(rz, n).res = RGet(absEntries[n], TRUE)
         /\ DoSnapshot(rz).map.m = SnapshotOf(absEntries, value))
  /\ [][(last'.op \in {"Put", "Delete"} /\ last' # last) =>
          (rz' = rz /\ value' = value /\ absEntries' = absEntries)]_vars

\* The caller overwrote key a of snapshot2 while holding snapshot1, which
\* has the key too, and the Registry still has the entry.
C13_Witness ==
  /\ last.op = "Put"
  /\ last.slot = 2
  /\ ref[1] # NoRef
  /\ ref[2] # NoRef
  /\ "a" \in DOMAIN held[ref[2]]
  /\ held[ref[2]]["a"] = Poison
  /\ "a" \in DOMAIN held[ref[1]]
  /\ held[ref[1]]["a"] # Poison
  /\ "a" \in DOMAIN rz.m

\* While Snapshot() runs beside Inc/Add/Set/Dec, every value it has recorded
\* for an instrument is one the instrument held at some moment since the call
\* started.
SnapshotValuesHeld ==
  \A t \in AllThreads :
    op[t] = "Snapshot" =>
      \A n \in DOMAIN snap[t] :
        /\ n \in DOMAIN metrics
        /\ snap[t][n].v \in during[t].seen[metrics[n]]

\* C14: while Snapshot() runs beside Inc/Add/Set/Dec, every value it has
\* recorded for an instrument is one the instrument held at some moment since
\* the call started; for a Counter it lies between the value at the start of
\* the call and the current one.
C14_SnapshotValuesHeld ==
  \A t \in AllThreads :
    op[t] = "Snapshot" =>
      \A n \in DOMAIN snap[t] :
        /\ n \in DOMAIN metrics
        /\ snap[t][n].v \in during[t].seen[metrics[n]]
        /\ metrics[n] \in Counters =>
             /\ during[t].start[metrics[n]] <= snap[t][n].v
             /\ snap[t][n].v <= value[metrics[n]]

\* Snapshot is about to return: it recorded for the counter a value reached
\* after the call started and left since, and for the gauge a value that is
\* no longer the current one.
C14_Witness ==
  /\ pc[Reader] = "SnapRUnlock"
  /\ DOMAIN snap[Reader] = {"a", "b"}
  /\ during[Reader].start["c1"] < snap[Reader]["a"].v
  /\ snap[Reader]["a"].v < value["c1"]
  /\ snap[Reader]["b"].v # value["g1"]

\* C15: on `var r Registry`, as long as no Register has succeeded, Len()
\* returns 0, Get finds nothing, Unregister returns ErrMetricNotFound,
\* Snapshot() returns an empty map that is not nil, and Clear() changes
\* nothing; none of them allocates r.metrics.  The first Register of a named
\* instrument succeeds, allocates the map, and Len() is 1 after it.
C15_ZeroValueUsable ==
  /\ rz.nil => absEntries = EmptyMap
  /\ (last.wasNil /\ last.op = "Len") => (out.z.res = RInt(0) /\ rz = ZeroRegistry)
  /\ (last.wasNil /\ last.op = "Get") =>
       (out.z.res = RGet(Nil, FALSE) /\ rz = ZeroRegistry)
  /\ (last.wasNil /\ last.op = "Unregister") =>
       (out.z.res = RErr(ErrMetricNotFound) /\ rz = ZeroRegistry)
  /\ (last.wasNil /\ last.op = "Snapshot") =>
       /\ out.z.map = [nil |-> FALSE, fresh |-> TRUE, m |-> EmptyMap]
       /\ rz = ZeroRegistry
  /\ (last.wasNil /\ last.op = "Clear") => (out.z.res = RVoid /\ rz = ZeroRegistry)
  /\ (last.wasNil /\ last.op = "Register" /\ last.m # Nil /\ Name(last.m) # "") =>
       /\ out.z.res = RVoid
       /\ ~rz.nil
       /\ DoLen(rz).res = RInt(1)

\* The first Register on the zero value has succeeded.
C15_Witness ==
  /\ last.wasNil
  /\ last.op = "Register"
  /\ out.z.res = RVoid
  /\ DOMAIN rz.m = {"b"}

\* Snapshot() was called on the zero value.
C15_WitnessSnapshot ==
  /\ last.wasNil
  /\ last.op = "Snapshot"
  /\ rz.nil

\* C16: `var r Registry` and NewRegistry(0), given the same sequence of
\* Register, Unregister, Get, Len, Snapshot and Clear calls, return the same
\* results at every step (errors, instruments found, lengths, returned maps),
\* and every call that could come next returns the same from both.
C16_ZeroEqualsNew ==
  /\ out.z = out.n
  /\ \A m \in Insts \cup {Nil} : DoRegister(rz, m).res = DoRegister(rn, m).res
  /\ \A n \in Names : DoUnregister(rz, n).res = DoUnregister(rn, n).res
  /\ \A n \in Names : DoGet(rz, n).res = DoGet(rn, n).res
  /\ DoLen(rz).res = DoLen(rn).res
  /\ DoSnapshot(rz).map = DoSnapshot(rn).map

\* Snapshot() was called on both while only NewRegistry's map was allocated.
C16_Witness ==
  /\ last.op = "Snapshot"
  /\ rz.nil
  /\ ~rn.nil
  /\ ~out.n.map.nil
  /\ out.n.map.m = EmptyMap

\* Both Registries went through a Register and a Clear.
C16_WitnessCleared ==
  /\ last.op = "Clear"
  /\ ~last.wasNil
  /\ rz = rn

\* C17: once Clear() has taken effect the Registry has no entry, whatever it
\* held before; as long as no Register has succeeded since, every Len()
\* returns 0, every Get finds nothing and every Snapshot() is empty.
C17_ClearEmpties ==
  /\ \A t \in AllThreads : pc[t] = "ClearUnlock" => metrics = EmptyMap
  /\ lastMut.op = "Clear" =>
       /\ metrics = EmptyMap
       /\ \A t \in AllThreads :
            /\ pc[t] = "LenRUnlock" => res[t] = RInt(0)
            /\ pc[t] = "GetRUnlock" => res[t] = RGet(Nil, FALSE)
            /\ pc[t] = "SnapRUnlock" => snap[t] = EmptyMap

\* Clear() has emptied a Registry of two entries and is about to return.
C17_Witness ==
  \E t \in Threads :
    /\ pc[t] = "ClearUnlock"
    /\ Size(linPre[t].m) = 2
    /\ lastMut.op = "Clear"

\* After a Clear() of an allocated Registry, a Len() is about to return.
C17_WitnessLen ==
  \E t \in Threads :
    /\ pc[t] = "LenRUnlock"
    /\ lastMut.op = "Clear"
    /\ ~metricsNil

\* C18: a Register, Unregister or Clear call leaves every instrument's value
\* as it was; and whether or not an instrument is registered, Inc adds one to
\* the value it finds, Add adds its delta, Set stores its argument and Load
\* returns the value, so an instrument that was removed keeps its value and
\* goes on working for the caller that holds it.
C18_RegistryLeavesValues ==
  /\ [][(last' # last /\ last'.op \in {"Register", "Unregister", "Clear"})
          => value' = value]_vars
  /\ [](pc[Caller] = "InstReturn" =>
         LET m == argM[Caller]
             o == op[Caller]
         IN /\ value[m] = newV[Caller]
            /\ (o = "Inc" /\ m \in Counters) => newV[Caller] = Wrap(oldV[Caller] + 1)
            /\ (o = "Add" /\ m \in Gauges) =>
                 newV[Caller] = FRound(oldV[Caller] + argD[Caller])
            /\ o = "Set" => newV[Caller] = argD[Caller]
            /\ o = "Load" =>
                 (res[Caller].n = oldV[Caller] /\ newV[Caller] = oldV[Caller]))

\* Unregister removed the gauge while it held 1; the caller's Load on the
\* removed gauge is about to return 1.
C18_Witness ==
  /\ last.op = "Unregister"
  /\ last.name = "b"
  /\ out.z.res = RVoid
  /\ last.vals["g1"] = 1
  /\ "b" \notin DOMAIN rz.m
  /\ pc[Caller] = "InstReturn"
  /\ op[Caller] = "Load"
  /\ argM[Caller] = "g1"
  /\ res[Caller].n = 1

\* Clear removed the counter; the caller's Inc on it is about to return.
C18_WitnessInc ==
  /\ last.op = "Clear"
  /\ ~last.wasNil
  /\ rz.m = EmptyMap
  /\ pc[Caller] = "InstReturn"
  /\ op[Caller] = "Inc"
  /\ argM[Caller] = "c1"
  /\ newV[Caller] = last.vals["c1"] + 1

\* The thread holds the lock, or the writer slot, of the Registry.
HoldsLock(t) == muW = t \/ t \in muR

\* C19: under fair scheduling every call that a goroutine has started
\* returns; whenever a goroutine is inside a call some goroutine can take a
\* step; and a goroutine outside a call holds no lock of the Registry,
\* whichever return path (the error returns included) it took.
C19_EveryCallReturns ==
  /\ \A t \in Threads : (pc[t] # "idle") ~> (pc[t] = "idle")
  /\ []((\E t \in Threads : pc[t] # "idle") =>
         (\E t \in Threads : ENABLED Progress(t)))
  /\ [](\A t \in Threads : pc[t] = "idle" => ~HoldsLock(t))

\* Register is about to return ErrDuplicateMetric with the write lock held,
\* while the other goroutine is blocked in Lock or RLock.
C19_Witness ==
  \E t \in Threads, u \in Threads :
    /\ t # u
    /\ pc[t] = "RegUnlock"
    /\ res[t] = RErr(ErrDuplicateMetric)
    /\ muW = t
    /\ AtLock(u)

\* C20, as stated: after the goroutines' Inc, Dec and Add calls on one gauge
\* have returned, Load() returns the initial value plus the sum of all
\* deltas (the initial value itself after as many Inc as Dec).
C20_NoLostUpdate ==
  (pc[Main] = "InstReturn" /\ op[Main] = "Load") =>
    res[Main].n = base["g1"] + gsum["g1"]

\* C20, amended: every Inc, Dec and Add replaces the value it finds by the
\* float64 sum of that value and its delta, so no update is lost; and when no
\* such sum was rounded, Load() after the calls have returned gives the
\* initial value plus the sum of all deltas.
C20_NoLostUpdateExact ==
  /\ \A t \in Threads :
       (pc[t] = "InstReturn" /\ op[t] = "Add") =>
         newV[t] = FRound(oldV[t] + argD[t])
  /\ ~inexact["g1"] => value["g1"] = base["g1"] + gsum["g1"]
  /\ (pc[Main] = "InstReturn" /\ op[Main] = "Load" /\ ~inexact["g1"]) =>
       res[Main].n = base["g1"] + gsum["g1"]

\* Every update has returned, none was rounded, the deltas do not sum to
\* zero, and Load() is about to return.
C20_Witness ==
  /\ pc[Main] = "InstReturn"
  /\ op[Main] = "Load"
  /\ ~inexact["g1"]
  /\ gsum["g1"] = 2
  /\ res[Main].n = base["g1"] + 2

\* C21: Get(name) returns (instrument, true) exactly when the name is
\* registered at the moment the call takes effect, and (nil, false) otherwise;
\* it never returns nil with true nor an instrument with false; and it leaves
\* the Registry as it found it.
C21_GetExact ==
  \A t \in Threads :
    pc[t] = "GetRUnlock" =>
      /\ Present(argN[t]) <=> argN[t] \in DOMAIN absEntries
      /\ res[t] = IF Present(argN[t])
                  THEN RGet(metrics[argN[t]], TRUE)
                  ELSE RGet(Nil, FALSE)
      /\ res[t].ok <=> res[t].m # Nil
      /\ linPost[t] = linPre[t]
      /\ RegState = linPre[t]
\* A Get that finds counter c2 under its name.
C21_Witness ==
  \E t \in Threads : pc[t] = "GetRUnlock" /\ res[t] = RGet("c2", TRUE)
\* A Get that does not find the name removed by the last Unregister.
C21_WitnessAbsent ==
  \E t \in Threads :
    /\ pc[t] = "GetRUnlock" /\ res[t] = RGet(Nil, FALSE)
    /\ lastMut.op = "Unregister" /\ lastMut.name = argN[t]

\* The Registry call of thread t is about to return, having found the Registry
\* as linPre[t] and left it as linPost[t].
Effect(t, o) == op[t] = o /\ Returning(t)
\* C22 (the calls): Len() returns the number of names registered; a successful Register
\* makes that number one more, a successful Unregister one less, Clear makes
\* it 0, and a failed Register or Unregister, Get and Len leave it as it is.
C22_LenCounts ==
  \A t \in Threads :
    LET before == Size(linPre[t].m)
        after == Size(linPost[t].m)
    IN /\ pc[t] = "LenRUnlock" =>
            (res[t] = RInt(Size(absEntries)) /\ res[t].n = before /\ after = before)
       /\ (Effect(t, "Register") /\ res[t] = RVoid) => after = before + 1
       /\ (Effect(t, "Unregister") /\ res[t] = RVoid) => after = before - 1
       /\ Effect(t, "Clear") => after = 0
       /\ (Effect(t, "Register") /\ res[t] # RVoid) => after = before
       /\ (Effect(t, "Unregister") /\ res[t] # RVoid) => after = before
       /\ Effect(t, "Get") => after = before
\* C22 (Snapshot, and every step that is not the effect of a Register, an
\* Unregister or a Clear): the number of names stays as it is.
C22_OthersKeepLen ==
  [][Size(metrics') # Size(metrics) =>
       \E t \in Threads :
         /\ pc[t] \in {"RegInsert", "UnregDelete", "ClearBody"}
         /\ pc'[t] \in {"RegUnlock", "UnregUnlock", "ClearUnlock"}]_vars
\* C22: both parts, in every behaviour.
C22_LenExact == []C22_LenCounts /\ C22_OthersKeepLen
\* A Len that returns 2.
C22_Witness ==
  \E t \in Threads : pc[t] = "LenRUnlock" /\ res[t] = RInt(2)
\* An Unregister that took the number of names from 2 to 1.
C22_WitnessUnregister ==
  \E t \in Threads :
    /\ pc[t] = "UnregUnlock" /\ res[t] = RVoid
    /\ Size(linPre[t].m) = 2 /\ Size(linPost[t].m) = 1

\* C23: whatever capacity each of two Registries was built with by
\* NewRegistry (negative, zero or positive), a new one has Len() == 0, a name
\* not yet present is accepted however many names are held already, and both
\* return the same from every call of every sequence of calls.
C23_CapacityUnobservable ==
  /\ \A c \in Capacities : DoLen(NewRegistry(c)).res = RInt(0)
  /\ last.op = "none" => (DoLen(rz).res = RInt(0) /\ DoLen(rn).res = RInt(0))
  /\ \A m \in Insts :
       (Name(m) # "" /\ Name(m) \notin DOMAIN rz.m) =>
         (DoRegister(rz, m).res = RVoid /\ DoRegister(rn, m).res = RVoid)
  /\ out.z.res = out.n.res
  /\ out.z.map = out.n.map
  /\ \A m \in Insts \cup {Nil} : DoRegister(rz, m).res = DoRegister(rn, m).res
  /\ \A n \in Names :
       /\ DoUnregister(rz, n).res = DoUnregister(rn, n).res
       /\ DoGet(rz, n).res = DoGet(rn, n).res
  /\ DoLen(rz).res = DoLen(rn).res
  /\ DoClear(rz).res = DoClear(rn).res
  /\ DoSnapshot(rz).map = DoSnapshot(rn).map
\* A Registry built with capacity 1 holds two names, as does the one built
\* with another capacity, and Len() has returned 2 from both.
C23_Witness ==
  /\ rz.cap = 1
  /\ rn.cap # 1
  /\ last.op = "Len"
  /\ out.z.res = RInt(2)
  /\ out.n.res = RInt(2)

\* The awaited Register call of the thread has returned.
Returned(t) == outcome[t] \notin {Awaited, NoOutcome}
\* The name the thread registers or has registered, "" before its call.
RaceName(t) ==
  IF Returned(t) THEN Name(outcome[t].m)
  ELSE IF op[t] = "Register" THEN argN[t] ELSE ""
\* The threads among S whose Register call succeeded.
Winners(S) == {w \in S : outcome[w].res = RVoid}

\* C24: two threads register distinct instruments of one name, not yet
\* present, at the same time: once both calls have returned, exactly one has
\* succeeded and the other has failed with ErrDuplicateMetric; the name is
\* held once, with the instrument of the call that succeeded, which is what
\* Get then returns, and Len returns 1.
C24_OneWinner ==
  \A t, u \in Threads :
    (/\ t # u /\ Returned(t) /\ Returned(u)
     /\ outcome[t].m # outcome[u].m
     /\ Name(outcome[t].m) = Name(outcome[u].m)) =>
      LET n == Name(outcome[t].m) IN
      /\ Cardinality(Winners({t, u})) = 1
      /\ \A w \in {t, u} \ Winners({t, u}) : outcome[w].res = RErr(ErrDuplicateMetric)
      /\ \A w \in Winners({t, u}) :
           /\ Present(n) /\ metrics[n] = outcome[w].m
           /\ (pc[Main] = "GetRUnlock" /\ argN[Main] = n) =>
                res[Main] = RGet(outcome[w].m, TRUE)
      /\ Size(metrics) = 1
      /\ pc[Main] = "LenRUnlock" => res[Main] = RInt(1)
\* Both calls have returned, the one with c1 failed, and Get returns c2.
C24_Witness ==
  /\ outcome["t1"] = [m |-> "c1", res |-> RErr(ErrDuplicateMetric)]
  /\ outcome["t2"] = [m |-> "c2", res |-> RVoid]
  /\ pc[Main] = "GetRUnlock"
  /\ res[Main] = RGet("c2", TRUE)
\* The race: one thread is inside Register's critical section with c1 while
\* the other waits for the lock with c2.
C24_WitnessRace ==
  /\ pc["t1"] = "RegInsert" /\ argM["t1"] = "c1"
  /\ pc["t2"] = "RegLock" /\ argM["t2"] = "c2"

\* Both awaited calls have returned, and they registered different names.
BothDistinct ==
  /\ \A t \in Threads : Returned(t)
  /\ \A t, u \in Threads : t # u => Name(outcome[t].m) # Name(outcome[u].m)
\* C25 (the outcome): two threads make the first Register calls on
\* `var r Registry`, with different names, at the same time: once both have
\* returned, both have succeeded, both names are held with their instruments,
\* Get finds them and Len returns 2.
C25_BothRegistered ==
  BothDistinct =>
    /\ \A t \in Threads :
         /\ outcome[t].res = RVoid
         /\ Present(Name(outcome[t].m))
         /\ metrics[Name(outcome[t].m)] = outcome[t].m
         /\ (pc[Main] = "GetRUnlock" /\ argN[Main] = Name(outcome[t].m)) =>
              res[Main] = RGet(outcome[t].m, TRUE)
    /\ Size(metrics) = Cardinality(Threads)
    /\ pc[Main] = "LenRUnlock" => res[Main] = RInt(Cardinality(Threads))
\* C25 (the allocation): the map is allocated only by a Register that holds
\* the exclusive lock and finds it nil, and that step is the only one of
\* Register's first statement that changes the Registry: it happens once.
C25_AllocatedOnce ==
  [][/\ metricsNil' # metricsNil =>
          (metricsNil /\ \E t \in Threads :
                           pc[t] = "RegInit" /\ pc'[t] = "RegCheck"
                           /\ muW = t /\ muR = {})
     /\ (\E t \in Threads : pc[t] = "RegInit" /\ pc'[t] = "RegCheck" /\ ~metricsNil)
          => metrics' = metrics]_vars
\* C25: both parts, in every behaviour.
C25_FirstRegisters == []C25_BothRegistered /\ C25_AllocatedOnce
\* Both calls have returned, one with c1 and one with g1, and Len returns 2.
C25_Witness ==
  /\ outcome["t1"] = [m |-> "c1", res |-> RVoid]
  /\ outcome["t2"] = [m |-> "g1", res |-> RVoid]
  /\ pc[Main] = "LenRUnlock"
  /\ res[Main] = RInt(2)
\* The race: both threads are in their first Register on the nil map, one of
\* them about to allocate it.
C25_WitnessRace ==
  /\ metricsNil
  /\ pc["t1"] = "RegInit" /\ argM["t1"] = "c1"
  /\ pc["t2"] = "RegLock" /\ argM["t2"] = "g1"

\* The instruments that the threads have registered or are registering under
\* the name.
Offered(n) ==
  {outcome[t].m : t \in {u \in Threads : Returned(u) /\ RaceName(u) = n}}
    \cup {argM[t] : t \in {u \in Threads : op[u] = "Register" /\ argN[u] = n}}
\* C26: threads register instruments of pairwise distinct names while another
\* thread calls Snapshot, Get and Len: a Register call that has returned, and
\* whose name no other thread has offered, has succeeded and its entry stays
\* in the map; Get and Snapshot see nothing but instruments that were
\* registered; and once every call has returned, the map holds as many
\* entries as there are names, which is what Len returns.
C26_NoneLost ==
  /\ \A t \in Threads :
       (Returned(t) /\ \A u \in Threads \ {t} : RaceName(u) # RaceName(t)) =>
         /\ outcome[t].res = RVoid
         /\ Present(RaceName(t))
         /\ metrics[RaceName(t)] = outcome[t].m
  /\ pc[Main] = "GetRUnlock" =>
       \/ res[Main] = RGet(Nil, FALSE) /\ ~Present(argN[Main])
       \/ /\ res[Main].ok /\ res[Main].m \in Offered(argN[Main])
          /\ Present(argN[Main]) /\ metrics[argN[Main]] = res[Main].m
  /\ pc[Main] = "SnapRUnlock" =>
       /\ DOMAIN snap[Main] = DOMAIN metrics
       /\ \A n \in DOMAIN snap[Main] : snap[Main][n] = MetricValue(metrics[n])
  /\ BothDistinct =>
       /\ Size(metrics) = Cardinality({RaceName(t) : t \in Threads})
       /\ pc[Main] = "LenRUnlock" =>
            res[Main] = RInt(Cardinality({RaceName(t) : t \in Threads}))
\* One Register call has returned, the other waits for the lock behind the
\* Snapshot that has copied the first entry.
C26_Witness ==
  /\ outcome["t1"] = [m |-> "c1", res |-> RVoid]
  /\ pc["t2"] = "RegWait" /\ argM["t2"] = "g1"
  /\ pc[Main] = "SnapRUnlock"
  /\ DOMAIN snap[Main] = {"a"}
\* Every call has returned and Get finds the gauge.
C26_WitnessDone ==
  /\ BothDistinct
  /\ pc[Main] = "GetRUnlock"
  /\ res[Main] = RGet("g1", TRUE)

\* Snapshot is about to return a map that pairs values which the instruments
\* held at no single instant of the call.
Mixed(t) ==
  /\ pc[t] = "SnapRUnlock"
  /\ \A j \in during[t].joint :
       \E n \in DOMAIN snap[t] : snap[t][n].v # j[metrics[n]]
\* C27: Snapshot reads the instruments one after the other under the shared
\* lock, which no instrument update takes: the map it returns may pair values
\* that were never held together (see the witness). Such a map still holds,
\* for every instrument, a value the instrument held during the call, and it
\* arises only when two or more updates took place during the call.
C27_MixedOnlyAcrossInstruments ==
  \A t \in AllThreads :
    Mixed(t) =>
      /\ \A n \in DOMAIN snap[t] : snap[t][n].v \in during[t].seen[metrics[n]]
      /\ Cardinality(during[t].joint) >= 3
\* Snapshot is about to return the counter's value from before its update
\* together with the gauge's value from after its update: a pair the two
\* instruments never held at the same instant.
C27_Witness ==
  /\ Mixed(Reader)
  /\ DOMAIN snap[Reader] = {"a", "b"}
  /\ snap[Reader]["a"].v = during[Reader].start["c1"]
  /\ value["c1"] # during[Reader].start["c1"]
  /\ snap[Reader]["b"].v # during[Reader].start["g1"]
  /\ snap[Reader]["b"].v = value["g1"]

\* The thread is at the RLock of Get, Len or Snapshot.
AtRLock(t) == pc[t] \in {"GetRLock", "LenRLock", "SnapRLock"}
\* C28: a thread at the RLock of Get, Len or Snapshot can take it exactly when
\* no thread holds or awaits the exclusive lock, however many readers hold the
\* shared one; and the thread that holds or awaits the exclusive lock is in
\* Register, Unregister or Clear. (The witness has two readers inside their
\* critical sections at once.)
C28_ReadersShare ==
  /\ \A t \in Threads :
       AtRLock(t) =>
         (ENABLED (GetRLock(t) \/ LenRLock(t) \/ SnapRLock(t)) <=> muW = NoThread)
  /\ muW # NoThread =>
       /\ op[muW] \in {"Register", "Unregister", "Clear"}
       /\ InWriteCS(muW) \/ pc[muW] \in {"RegWait", "UnregWait", "ClearWait"}
\* A Get and a Snapshot are inside their critical sections at the same time.
C28_Witness ==
  \E t, u \in Threads :
    /\ pc[t] = "GetRead" /\ pc[u] = "SnapIter"
    /\ muR = {t, u}
\* A reader is blocked by a Register that awaits the lock.
C28_WitnessBlocked ==
  \E t, u \in Threads :
    /\ pc[t] = "LenRLock"
    /\ pc[u] = "RegWait"
    /\ ~ENABLED LenRLock(t)

\* The methods of Counter and Gauge that the claim names.
InstOps == {"Inc", "Add", "Load", "Set"}
\* C29 (enabled): a thread outside any call can make every call of
\* Counter.Inc/Add/Load and Gauge.Set/Inc/Dec/Add/Load on the registered
\* instruments, whoever holds or awaits the Registry's lock, and a thread
\* inside such a call can return from it.
C29_AlwaysEnabled ==
  \A t \in AllThreads :
    /\ pc[t] = "idle" =>
         /\ ENABLED CounterInc(t, "c1")
         /\ \A d \in Deltas : ENABLED CounterAdd(t, "c1", d)
         /\ ENABLED CounterLoad(t, "c1")
         /\ \A v \in GaugeVals : ENABLED GaugeSet(t, "g1", v)
         /\ ENABLED GaugeInc(t, "g1")
         /\ ENABLED GaugeDec(t, "g1")
         /\ \A d \in Deltas : ENABLED GaugeAdd(t, "g1", d)
         /\ ENABLED GaugeLoad(t, "g1")
    /\ pc[t] = "InstReturn" => ENABLED InstReturn(t)
\* C29 (no lock): a call of an instrument method is two steps, the atomic
\* operation and the return, and neither changes the lock.
C29_NoLock ==
  [][\A t \in AllThreads :
       /\ (pc[t] = "idle" /\ op'[t] \in InstOps) =>
            (pc'[t] = "InstReturn" /\ UNCHANGED muVars)
       /\ pc[t] = "InstReturn" => (pc'[t] \in {"InstReturn", "idle"})
       /\ (pc[t] = "InstReturn" /\ pc'[t] = "idle") => UNCHANGED muVars]_vars
\* C29: both parts, in every behaviour.
C29_Bypass == []C29_AlwaysEnabled /\ C29_NoLock
\* Snapshot, holding the shared lock, has copied the counter's value, and
\* the counter has been incremented since: Inc ran while the lock was held.
C29_Witness ==
  /\ pc[Reader] \in {"SnapIter", "SnapRUnlock"}
  /\ Reader \in muR
  /\ "a" \in DOMAIN snap[Reader]
  /\ snap[Reader]["a"].v # value["c1"]
  /\ pc[Updater] = "InstReturn"
  /\ op[Updater] = "Inc"
\* Register holds the exclusive lock and the other thread can call Dec.
C29_WitnessExclusive ==
  /\ InWriteCS(Reader)
  /\ muW = Reader
  /\ pc[Updater] = "idle"
  /\ left[Updater] > 0
  /\ ENABLED GaugeDec(Updater, "g1")

\* C30: a Counter starts at 0, and as long as the number of its Inc calls
\* plus the sum of max(d, 0) over its Add(d) calls fits an int64, that total
\* is the value it holds, what Value() boxes and what Load() returns.
C30_CounterSum ==
  /\ \A c \in Counters : base[c] = 0
  /\ \A c \in Counters :
       counted[c].exact =>
         /\ value[c] = counted[c].n
         /\ CounterValue(c) = [type |-> "int64", v |-> counted[c].n]
  /\ \A t \in AllThreads :
       (pc[t] = "InstReturn" /\ op[t] = "Load" /\ counted[argM[t]].exact) =>
         res[t] = RInt(counted[argM[t]].n)
\* Load returns 7, the total of the calls made (as after Inc, Inc, Add(5)).
C30_Witness ==
  /\ pc["t1"] = "InstReturn"
  /\ op["t1"] = "Load"
  /\ argM["t1"] = "c1"
  /\ counted["c1"] = [n |-> 7, exact |-> TRUE]
  /\ res["t1"] = RInt(7)

\* What Inc() followed by Dec() leaves of the value v.
DecAfterInc(v) == FRound(FRound(v + 1) + (0 - 1))
\* C31: a new Gauge starts at 0, and in a program of one goroutine, over
\* integer values that float64 adds exactly, its value and what Load() returns
\* are the argument of the last Set (0 if none) plus the sum of the deltas
\* applied since, Inc counting +1, Dec -1 and Add(d) d of either sign; Inc
\* followed by Dec leaves the value it found.
C31_GaugeSum ==
  /\ base["g1"] = 0
  /\ ~inexact["g1"] => value["g1"] = stored["g1"] + gsum["g1"]
  /\ (pc[Caller] = "InstReturn" /\ op[Caller] = "Load" /\ ~inexact["g1"]) =>
       res[Caller] = RInt(stored["g1"] + gsum["g1"])
  /\ (pc[Caller] = "InstReturn" /\ op[Caller] = "Set") =>
       (value["g1"] = argD[Caller] /\ stored["g1"] = argD[Caller] /\ gsum["g1"] = 0)
  /\ (pc[Caller] = "InstReturn" /\ op[Caller] = "Add" /\ ~inexact["g1"]) =>
       newV[Caller] = oldV[Caller] + argD[Caller]
  /\ FRound(value["g1"] + 1) = value["g1"] + 1 => DecAfterInc(value["g1"]) = value["g1"]
\* Load() returns -2: the 1 of the last Set and deltas that sum to -3.
C31_Witness ==
  /\ pc[Caller] = "InstReturn"
  /\ op[Caller] = "Load"
  /\ ~inexact["g1"]
  /\ stored["g1"] = 1
  /\ gsum["g1"] = 0 - 3
  /\ res[Caller] = RInt(0 - 2)

\* C32: from its first read of the map to its return Snapshot holds the
\* shared lock, so the entry set stands still: the names copied and the names
\* still to visit are together the names of the Registry, and the map about
\* to be returned has exactly the names the Registry holds at that instant,
\* whatever Register, Unregister and Clear calls the other threads are in.
C32_SnapshotKeysAtOneInstant ==
  \A t \in Threads :
    /\ pc[t] \in {"SnapIter", "SnapRUnlock"} =>
         /\ t \in muR
         /\ \A u \in Threads : ~InWriteCS(u)
    /\ pc[t] = "SnapIter" =>
         (DOMAIN snap[t]) \cup iter[t] = DOMAIN metrics
    /\ pc[t] = "SnapRUnlock" =>
         /\ DOMAIN snap[t] = DOMAIN metrics
         /\ DOMAIN snap[t] = DOMAIN absEntries
         /\ lastMut.op = "Clear" => snap[t] = EmptyMap
         /\ lastMut.op = "Unregister" => lastMut.name \notin DOMAIN snap[t]
         /\ lastMut.op = "Register" => lastMut.name \in DOMAIN snap[t]
\* Snapshot is about to return both names while the other thread's Clear
\* waits for the lock.
C32_Witness ==
  \E t, u \in Threads :
    /\ pc[t] = "SnapRUnlock"
    /\ DOMAIN snap[t] = {"a", "b"}
    /\ pc[u] = "ClearWait"
\* Snapshot is about to return no name: the Clear took effect before it.
C32_WitnessCleared ==
  \E t \in Threads :
    /\ pc[t] = "SnapRUnlock"
    /\ lastMut.op = "Clear"
    /\ ~metricsNil

\* The last change of the Registry removed the name, by Unregister or Clear.
Freed(n) ==
  \/ lastMut.op = "Clear"
  \/ lastMut.op = "Unregister" /\ lastMut.name = n
\* C33 (the states): a name removed by the last successful Unregister or
\* Clear is absent; a Register that has stored its instrument under a name
\* has succeeded and the name maps to that instrument; and a Get that follows
\* returns the instrument registered last, not one held before.
C33_NameFree ==
  \A t \in Threads :
    /\ (pc[t] = "RegCheck" /\ Freed(argN[t])) => ~Present(argN[t])
    /\ (pc[t] = "RegUnlock" /\ res[t] = RErr(ErrDuplicateMetric)) => ~Freed(argN[t])
    /\ (pc[t] = "RegUnlock" /\ res[t] = RVoid) =>
         /\ lastMut = [op |-> "Register", m |-> argM[t], name |-> argN[t]]
         /\ metrics[argN[t]] = argM[t]
    /\ (pc[t] = "GetRUnlock" /\ lastMut.op = "Register" /\ lastMut.name = argN[t]) =>
         res[t] = RGet(lastMut.m, TRUE)
\* C33 (the steps): a Register that makes its duplicate check on a name
\* removed by the last successful Unregister or Clear goes on to store its
\* instrument, the one removed or another, and returns nil.
C33_FreedThenAccepted ==
  [][\A t \in Threads :
       (pc[t] = "RegCheck" /\ pc'[t] # "RegCheck" /\ Freed(argN[t])) =>
         /\ pc'[t] = "RegInsert"
         /\ res'[t] = RVoid]_vars
\* C33: both parts, in every behaviour.
C33_NameAvailableAgain == []C33_NameFree /\ C33_FreedThenAccepted
\* Counter c1 was held under "a"; after its removal c2 was registered under
\* that name, and Get returns c2.
C33_Witness ==
  \E t \in Threads :
    /\ pc[t] = "GetRUnlock"
    /\ lastMut = [op |-> "Register", m |-> "c2", name |-> "a"]
    /\ res[t] = RGet("c2", TRUE)
\* After Clear, the same counter c1 is about to be stored again.
C33_WitnessSame ==
  \E t \in Threads :
    /\ pc[t] = "RegInsert"
    /\ argM[t] = "c1"
    /\ lastMut.op = "Clear"

\* C34: one goroutine takes snapshots one after the other while another one
\* calls Inc and Add on the registered counter: as long as the counter's total
\* fits an int64, the value a snapshot is about to return for it is at least
\* the value of every snapshot returned before, and at least the value the
\* counter had at the start.
C34_SnapshotsMonotone ==
  (/\ pc[Reader] \in {"SnapIter", "SnapRUnlock"}
   /\ "a" \in DOMAIN snap[Reader]
   /\ counted["c1"].exact) =>
    /\ metrics["a"] = "c1"
    /\ hiSnap["c1"].kept
    /\ snap[Reader]["a"].v >= hiSnap["c1"].v
    /\ snap[Reader]["a"].v >= base["c1"]
\* An earlier snapshot returned the counter above its first value, and the
\* one about to return holds a larger value still.
C34_Witness ==
  /\ pc[Reader] = "SnapRUnlock"
  /\ counted["c1"].exact
  /\ "a" \in DOMAIN snap[Reader]
  /\ hiSnap["c1"].v > base["c1"]
  /\ snap[Reader]["a"].v > hiSnap["c1"].v

\* C35: the empty string is never a key of the Registry's map: Get("")
\* returns (nil, false), Unregister("") returns ErrMetricNotFound, and no
\* snapshot, finished or in the making, holds the empty name.
C35_NoEmptyKey ==
  /\ "" \notin DOMAIN metrics
  /\ "" \notin DOMAIN absEntries
  /\ \A t \in Threads :
       /\ (pc[t] = "GetRUnlock" /\ argN[t] = "") => res[t] = RGet(Nil, FALSE)
       /\ (pc[t] = "UnregUnlock" /\ argN[t] = "") => res[t] = RErr(ErrMetricNotFound)
       /\ pc[t] # "UnregDelete" \/ argN[t] # ""
       /\ "" \notin DOMAIN snap[t]
       /\ "" \notin iter[t]
\* On a Registry that holds two names, Get("") is about to report not-found
\* while the other thread has called Unregister("").
C35_Witness ==
  \E t, u \in Threads :
    /\ Size(metrics) = 2
    /\ pc[t] = "GetRUnlock" /\ argN[t] = ""
    /\ pc[u] = "UnregLock" /\ argN[u] = ""
\* Unregister("") is about to return ErrMetricNotFound from a Registry whose
\* map is allocated.
C35_WitnessUnregister ==
  \E t \in Threads :
    /\ pc[t] = "UnregUnlock" /\ argN[t] = ""
    /\ ~metricsNil

\* The thread calls Register in this step with nil or with a nameless
\* instrument.
InvalidRegisterCall(t) ==
  /\ pc[t] = "idle"
  /\ op'[t] = "Register"
  /\ argM'[t] = Nil \/ argN'[t] = ""
\* C36 (enabled): whoever holds or awaits the lock, a thread outside any call
\* can call Register with nil and with a nameless instrument, and a thread
\* that holds the error of such a call can return it.
C36_InvalidNeverBlocked ==
  \A t \in Threads :
    /\ pc[t] = "idle" =>
         (ENABLED RegisterCall(t, Nil) /\ ENABLED RegisterCall(t, "e0"))
    /\ pc[t] = "RegReturn" =>
         /\ ENABLED RegReturn(t)
         /\ muW # t
         /\ t \notin muR
\* C36 (the steps): such a call is two steps, the checks and the return;
\* neither touches the lock or the map, the nil check comes first (nil gives
\* ErrNilMetric, whatever name it has or lacks) and the name check second.
C36_ChecksBeforeLock ==
  [][\A t \in Threads :
       /\ InvalidRegisterCall(t) =>
            /\ pc'[t] = "RegReturn"
            /\ UNCHANGED <<muVars, regVars>>
            /\ res'[t] = IF argM'[t] = Nil THEN RErr(ErrNilMetric)
                         ELSE RErr(ErrInvalidMetricName)
       /\ (pc[t] = "RegReturn" /\ pc'[t] # "RegReturn") =>
            (pc'[t] = "idle" /\ UNCHANGED <<muVars, regVars>>)]_vars
\* C36: both parts, in every behaviour.
C36_ValidateBeforeLock == []C36_InvalidNeverBlocked /\ C36_ChecksBeforeLock
\* Register(nil) is about to return its error while the other thread is
\* inside Register's critical section.
C36_Witness ==
  \E t, u \in Threads :
    /\ pc[t] = "RegReturn" /\ argM[t] = Nil /\ res[t] = RErr(ErrNilMetric)
    /\ muW = u /\ pc[u] = "RegInsert"
    /\ ENABLED RegReturn(t)
\* The other thread holds the lock and Register of the nameless e0 can be
\* called.
C36_WitnessNameless ==
  \E t, u \in Threads :
    /\ pc[t] = "idle"
    /\ muW = u /\ InWriteCS(u)
    /\ ENABLED RegisterCall(t, "e0")
====
